---- MODULE Spec2Model ----
(***************************************************************************)
(* Feed pagination engine of the TI&A poller: update and search sessions   *)
(* (FeedGenerator, UpdateFeedGenerator, SearchFeedGenerator), the Parser   *)
(* that wraps one page and projects its feeds through templates, the       *)
(* helpers the Parser rests on (ParserHelper, Validator), the GeneratorInfo *)
(* validation done when a session is created, and the transport call       *)
(* send_request.                                                           *)
(***************************************************************************)
EXTENDS Integers, Sequences, FiniteSets, TLC

VARIABLES
    sess,       \* session handle -> generator object (FeedGenerator fields + frame state)
    result,     \* session handle -> outcome of the last call made through that handle
    args,       \* session handle -> the arguments of the last create_* call made for it
    fetched,    \* session handle -> the send_request calls of the session, in order
    received,   \* session handle -> what each of those calls returned or raised
    yielded,    \* session handle -> the portions handed to the consumer, in order
    heap,       \* object id -> the GeneratorInfo object stored there
    lookup,     \* search_feed_by_id: its send_request calls and its last outcome
    _keys,      \* TIAPoller._keys: collection name -> template set by set_keys
    _iocs_keys, \* TIAPoller._iocs_keys: collection name -> template set by set_iocs_keys
    call,       \* the last set_keys, set_iocs_keys, parse_portion or get_iocs call
    helper,     \* a ParserHelper call: its input and, once made, its outcome
    manager     \* the state file, the StateManager in hand and its last call

vars == <<sess, result, args, fetched, received, yielded, heap, lookup, _keys, _iocs_keys, call, helper, manager>>

----------------------------------------------------------------------------
(* Bounds of the model. *)

\* pulls and lookups made on one poller, all sessions together
MaxCalls == 3

\* elements of a list among the values the helpers are applied to
MaxLen == 2

\* the two session handles a consumer holds
Sessions == {1, 2}

----------------------------------------------------------------------------
(* Python values: None, bool, int, str, list and dict are kept apart, as    *)
(* `if v`, `is None`, isinstance() and str() tell them apart.  A dict is a *)
(* function from its keys, a list or a tuple a sequence.                   *)

None == [t |-> "none"]
PyInt(n) == [t |-> "int", n |-> n]
PyStr(s) == [t |-> "str", s |-> s]
PyBool(b) == [t |-> "bool", b |-> b]
PyList(l) == [t |-> "list", l |-> l]
PyDict(d) == [t |-> "dict", d |-> d]

\* {} and []
EmptyDict == PyDict(<<>>)
EmptyList == PyList(<<>>)

\* bool(v)
Truthy(v) ==
    CASE v.t = "none" -> FALSE
      [] v.t = "bool" -> v.b
      [] v.t = "int"  -> v.n # 0
      [] v.t = "str"  -> v.s # ""
      [] v.t = "list" -> v.l # <<>>
      [] v.t = "dict" -> DOMAIN v.d # {}

\* len(v) of a list, a dict or a str
PyLen(v) ==
    CASE v.t = "list" -> Len(v.l)
      [] v.t = "dict" -> Cardinality(DOMAIN v.d)
      [] v.t = "str"  -> Len(v.s)

\* d.get(key, default) of a dict d
Get(d, k, default) == IF k \in DOMAIN d.d THEN d.d[k] ELSE default

\* d[key] = value: the dict afterwards
SetItem(d, k, value) ==
    PyDict([x \in DOMAIN d.d \cup {k} |-> IF x = k THEN value ELSE d.d[x]])

\* the mutant derives ParserException from InputException
exception_bases_ParserIsInput ==
    [ConnectionException |-> "Exception", InputException |-> "Exception",
     ParserException |-> "InputException"]

\* the exception classes of the package and the class each derives from
exception_bases ==
    [ConnectionException |-> "Exception", InputException |-> "Exception",
     ParserException |-> "Exception"]

\* what a call gives when it raises instead of returning
Raised(exception) == [t |-> "raise", exc |-> exception]

IsRaised(v) == v.t = "raise"

\* str(v), as urlencode applies it to a value
PyToStr(v) == IF v.t = "int" THEN ToString(v.n) ELSE v.s

----------------------------------------------------------------------------
(* The collection catalog.                                                 *)

FmtDate == "%Y-%m-%d"
FmtDateTime == "%Y-%m-%dT%H:%M:%S%z"

BothFormats == {FmtDate, FmtDateTime}

COLLECTIONS_INFO ==
    [c \in {"compromised/account", "compromised/card", "compromised/breached",
            "compromised/reaper", "compromised/mule", "compromised/imei",
            "attacks/ddos", "attacks/phishing", "attacks/phishing_kit",
            "attacks/deface", "suspicious_ip/tor_node", "suspicious_ip/open_proxy",
            "suspicious_ip/socks_proxy", "malware/targeted_malware",
            "malware/malware", "malware/cnc", "osi/public_leak", "osi/git_leak",
            "osi/vulnerability", "apt/threat_actor", "apt/threat", "bp/phishing",
            "bp/phishing_kit", "hi/threat", "hi/threat_actor"}
       |-> [date_formats |->
               IF c = "compromised/breached" THEN {FmtDate} ELSE BothFormats]]

ONLY_SEARCH_COLLECTIONS == {"compromised/breached", "compromised/reaper"}

----------------------------------------------------------------------------
(* Validator                                                               *)

\* the mutant accepts the search-only collections for update sessions
validate_collection_name_NoSearchOnly(collection_name, method) ==
    IF collection_name \notin DOMAIN COLLECTIONS_INFO
    THEN "InputException"
    ELSE "ok"

\* Validator.validate_collection_name: "ok" or the exception raised
validate_collection_name(collection_name, method) ==
    IF method = "update" /\ collection_name \in ONLY_SEARCH_COLLECTIONS
    THEN "InputException"
    ELSE IF collection_name \notin DOMAIN COLLECTIONS_INFO
         THEN "InputException"
         ELSE "ok"

\* datetime.strptime(date, fmt) succeeds; on the date strings the model uses
strptime_ok(date, fmt) ==
    /\ date.t = "str"
    /\ \/ fmt = FmtDate /\ date.s \in {"2021-01-01", "2021-02-01"}
       \/ fmt = FmtDateTime /\ date.s \in {"2021-01-01T00:00:00Z"}

\* Validator.validate_date_format
validate_date_format(date, formats) ==
    IF \E f \in formats : strptime_ok(date, f) THEN "ok" ELSE "InputException"

\* int(limit) succeeds
int_ok(v) == v.t = "int" \/ (v.t = "str" /\ v.s \in {"10", "0"})

\* Validator.validate_set_iocs_keys_input: "ok" or the exception raised
validate_set_iocs_keys_input(keys) ==
    IF keys.t # "dict" THEN "InputException"
    ELSE IF \E k \in DOMAIN keys.d : keys.d[k].t # "str" THEN "InputException"
    ELSE "ok"

\* Validator.validate_set_keys_input: "ok" or the exception raised
RECURSIVE validate_set_keys_input(_)
validate_set_keys_input(keys) ==
    IF keys.t = "dict"
    THEN IF \E k \in DOMAIN keys.d : validate_set_keys_input(keys.d[k]) # "ok"
         THEN "InputException"
         ELSE "ok"
    ELSE IF keys.t # "str" THEN "InputException"
    ELSE "ok"

----------------------------------------------------------------------------
(* ParserHelper.  A call gives the value it returns, or Raised(e) when it  *)
(* raises e.                                                               *)

\* s.startswith(prefix) for a prefix of one character
startswith(s, prefix) == Len(s) > 0 /\ SubSeq(s, 1, 1) = prefix

\* the index of the first "." of s, 0 when it has none
find_dot(s) ==
    IF \E i \in 1..Len(s) : SubSeq(s, i, i) = "."
    THEN CHOOSE i \in 1..Len(s) :
             /\ SubSeq(s, i, i) = "."
             /\ \A j \in 1..(i - 1) : SubSeq(s, j, j) # "."
    ELSE 0

\* s.split(".", 1)
split_once(s) ==
    LET dot == find_dot(s)
    IN  IF dot = 0 THEN <<s>>
        ELSE <<SubSeq(s, 1, dot - 1), SubSeq(s, dot + 1, Len(s))>>

\* s.split(".")
RECURSIVE split(_)
split(s) ==
    LET path == split_once(s)
    IN  IF Len(path) = 1 THEN path ELSE <<path[1]>> \o split(path[2])

\* i.get(key) on whatever i is: only a dict has the attribute
attr_get(i, key) ==
    IF i.t = "dict" THEN Get(i, key, None) ELSE Raised("AttributeError")

\* a list comprehension over results: the list, or what the first failing
\* element raised
comprehension(results) ==
    IF \E n \in 1..Len(results) : IsRaised(results[n])
    THEN results[CHOOSE n \in 1..Len(results) :
                     /\ IsRaised(results[n])
                     /\ \A m \in 1..(n - 1) : ~IsRaised(results[m])]
    ELSE PyList(results)

\* ParserHelper.find_element_by_key
RECURSIVE find_element_by_key(_, _)
find_element_by_key(obj, key) ==
    LET path == split_once(key)
    IN  IF Len(path) = 1
        THEN CASE obj.t = "list" ->
                      comprehension([n \in 1..Len(obj.l) |-> attr_get(obj.l[n], path[1])])
               [] obj.t = "dict" -> Get(obj, path[1], None)
               [] OTHER -> obj
        ELSE CASE obj.t = "list" ->
                      comprehension(
                          [n \in 1..Len(obj.l) |->
                              LET inner == attr_get(obj.l[n], path[1])
                              IN  IF IsRaised(inner) THEN inner
                                  ELSE find_element_by_key(inner, path[2])])
               [] obj.t = "dict" -> find_element_by_key(Get(obj, path[1], None), path[2])
               [] OTHER -> obj

\* the values unpack_iocs drops
DroppedIocs == {PyStr("255.255.255.255"), PyStr("0.0.0.0"), PyStr(""), None}

\* a + b for two sequences of lists, flattened: unpacked.extend(...) in a loop
RECURSIVE extend_all(_)
extend_all(lists) ==
    IF lists = <<>> THEN <<>> ELSE lists[1].l \o extend_all(Tail(lists))

\* the mutant drops every falsy value, as `if ioc` would
RECURSIVE unpack_iocs_DropFalsy(_)
unpack_iocs_DropFalsy(ioc) ==
    IF ioc.t = "list"
    THEN PyList(extend_all([n \in 1..Len(ioc.l) |-> unpack_iocs_DropFalsy(ioc.l[n])]))
    ELSE IF Truthy(ioc) /\ ioc \notin DroppedIocs THEN PyList(<<ioc>>) ELSE EmptyList

\* ParserHelper.unpack_iocs
RECURSIVE unpack_iocs(_)
unpack_iocs(ioc) ==
    IF ioc.t = "list"
    THEN PyList(extend_all([n \in 1..Len(ioc.l) |-> unpack_iocs(ioc.l[n])]))
    ELSE IF ioc \notin DroppedIocs THEN PyList(<<ioc>>) ELSE EmptyList

\* s.lstrip("*")
RECURSIVE lstrip_star(_)
lstrip_star(s) == IF startswith(s, "*") THEN lstrip_star(SubSeq(s, 2, Len(s))) ELSE s

\* the mutant strips every leading "*" of a literal, as value.lstrip("*") would
RECURSIVE find_by_template_StripAllStars(_, _)
find_by_template_StripAllStars(feed, keys) ==
    IF keys.t # "dict" THEN Raised("AttributeError")
    ELSE LET used == {key \in DOMAIN keys.d : keys.d[key].t \in {"str", "dict"}}
             parsed == [key \in used |->
                           LET value == keys.d[key]
                           IN  IF value.t = "str"
                               THEN IF startswith(value.s, "*")
                                    THEN PyStr(lstrip_star(value.s))
                                    ELSE find_element_by_key(feed, value.s)
                               ELSE find_by_template_StripAllStars(feed, value)]
         IN  IF \E key \in used : IsRaised(parsed[key])
             THEN parsed[CHOOSE key \in used : IsRaised(parsed[key])]
             ELSE PyDict(parsed)

\* ParserHelper.find_by_template
RECURSIVE find_by_template(_, _)
find_by_template(feed, keys) ==
    IF keys.t # "dict" THEN Raised("AttributeError")
    ELSE LET used == {key \in DOMAIN keys.d : keys.d[key].t \in {"str", "dict"}}
             parsed == [key \in used |->
                           LET value == keys.d[key]
                           IN  IF value.t = "str"
                               THEN IF startswith(value.s, "*")
                                    THEN PyStr(SubSeq(value.s, 2, Len(value.s)))
                                    ELSE find_element_by_key(feed, value.s)
                               ELSE find_by_template(feed, value)]
         IN  IF \E key \in used : IsRaised(parsed[key])
             THEN parsed[CHOOSE key \in used : IsRaised(parsed[key])]
             ELSE PyDict(parsed)

----------------------------------------------------------------------------
(* GeneratorInfo                                                           *)

GeneratorInfo(collection_name, session_type, date_from, date_to, query, limit, apply_hunting_rules, keys, iocs_keys) ==
    [collection_name |-> collection_name, session_type |-> session_type,
     date_from |-> date_from, date_to |-> date_to, query |-> query,
     limit |-> limit, apply_hunting_rules |-> apply_hunting_rules,
     keys |-> keys, iocs_keys |-> iocs_keys]

\* GeneratorInfo.__post_init__ / __validate_default_fields: "ok" or the first
\* exception raised
post_init(info) ==
    LET name_check == validate_collection_name(info.collection_name, info.session_type)
        formats == COLLECTIONS_INFO[info.collection_name]["date_formats"]
    IN  IF name_check # "ok" THEN name_check
        ELSE IF Truthy(info.date_from)
                /\ validate_date_format(info.date_from, formats) # "ok"
             THEN "InputException"
        ELSE IF Truthy(info.date_to)
                /\ validate_date_format(info.date_to, formats) # "ok"
             THEN "InputException"
        ELSE IF Truthy(info.limit) /\ ~int_ok(info.limit)
             THEN "ValueError"
        ELSE "ok"

----------------------------------------------------------------------------
(* Parser: one page wrapped                                                *)

\* the mutant takes a count of 0 for a missing count
return_items_list_CountTruthy(raw_dict, count) ==
    IF Truthy(count) THEN Get(raw_dict, "items", EmptyDict) ELSE PyList(<<raw_dict>>)

\* Parser._return_items_list
return_items_list(raw_dict, count) ==
    IF count # None THEN Get(raw_dict, "items", EmptyDict) ELSE PyList(<<raw_dict>>)

\* the mutant takes the size of the portion from the count of the page
Parser_SizeFromCount(chunk, keys, iocs_keys) ==
    LET count == Get(chunk, "count", None)
    IN  [raw_dict |-> chunk,
         iocs_keys |-> iocs_keys,
         keys |-> keys,
         count |-> count,
         portion_size |-> IF count # None THEN count.n ELSE 1,
         sequpdate |-> Get(chunk, "seqUpdate", None),
         result_id |-> Get(chunk, "resultId", None)]

\* Parser.__init__
Parser(chunk, keys, iocs_keys) ==
    LET count == Get(chunk, "count", None)
    IN  [raw_dict |-> chunk,
         iocs_keys |-> iocs_keys,
         keys |-> keys,
         count |-> count,
         portion_size |-> PyLen(return_items_list(chunk, count)),
         sequpdate |-> Get(chunk, "seqUpdate", None),
         result_id |-> Get(chunk, "resultId", None)]

\* the feeds a loop over Parser._return_items_list() visits; iterating the {}
\* that stands in for a missing "items" visits nothing
feeds_of(portion) ==
    LET raw_dict == return_items_list(portion.raw_dict, portion.count)
    IN  IF raw_dict.t = "list" THEN raw_dict.l ELSE <<>>

\* for k in keys_road: feed = feed.get(k, {})
RECURSIVE follow_keys_road(_, _)
follow_keys_road(feed, keys_road) ==
    IF keys_road = <<>> THEN feed
    ELSE IF feed.t # "dict" THEN Raised("AttributeError")
    ELSE follow_keys_road(Get(feed, keys_road[1], EmptyDict), Tail(keys_road))

\* x in a_list
is_in(x, a_list) == \E n \in 1..Len(a_list.l) : a_list.l[n] = x

\* Parser._keys_exist
_keys_exist(feed, keys_road) ==
    LET found == follow_keys_road(feed, keys_road)
    IN  IF IsRaised(found) THEN found ELSE PyBool(Truthy(found))

\* Parser._keys_found
_keys_found(feed, keys_road, check_list) ==
    LET found == follow_keys_road(feed, keys_road)
    IN  IF IsRaised(found) THEN found
        ELSE IF found.t = "list" THEN Raised("ValueError")
        ELSE PyBool(Truthy(check_list) /\ is_in(found, check_list))

\* the mutant tests check_existence before ignore
filter_accepts_ExistenceFirst(feed, filter_map, ignore, check_existence) ==
    IF ~Truthy(filter_map) THEN PyBool(TRUE)
    ELSE LET _keys_road == split(filter_map.l[1].s)
             _check_list == filter_map.l[2]
             found == _keys_found(feed, _keys_road, _check_list)
             exist == _keys_exist(feed, _keys_road)
         IN  IF check_existence THEN exist
             ELSE IF ignore
             THEN IF IsRaised(found) THEN found ELSE PyBool(~found.b)
             ELSE found

\* the filter logic of parse_portion and get_iocs for one feed: PyBool(TRUE)
\* when the loop goes on to the feed, PyBool(FALSE) when it hits `continue`
filter_accepts(feed, filter_map, ignore, check_existence) ==
    IF ~Truthy(filter_map) THEN PyBool(TRUE)
    ELSE LET _keys_road == split(filter_map.l[1].s)
             _check_list == filter_map.l[2]
             found == _keys_found(feed, _keys_road, _check_list)
             exist == _keys_exist(feed, _keys_road)
         IN  IF ignore
             THEN IF IsRaised(found) THEN found ELSE PyBool(~found.b)
             ELSE IF check_existence THEN exist
             ELSE found

\* what a loop body leaves for a feed it skipped with `continue`
Continue == [t |-> "continue"]

\* what a loop over the feeds leaves behind: what the first failing feed
\* raised, or the list of the results of the feeds not skipped, in order
loop_results(steps) ==
    LET not_skipped(step) == step # Continue
        all == comprehension(steps)
    IN  IF IsRaised(all) THEN all ELSE PyList(SelectSeq(steps, not_skipped))

\* Parser.parse_portion (as_json = False); keys is None when not given
parse_portion(portion, keys, filter_map, ignore, check_existence) ==
    IF ~Truthy(portion.keys) /\ ~Truthy(keys) THEN Raised("ParserException")
    ELSE IF Truthy(keys) /\ validate_set_keys_input(keys) # "ok"
    THEN Raised("InputException")
    ELSE LET raw_dict == feeds_of(portion)
             parsed_dict(feed) ==
                 LET accepts == filter_accepts(feed, filter_map, ignore, check_existence)
                 IN  IF IsRaised(accepts) THEN accepts
                     ELSE IF ~accepts.b THEN Continue
                     ELSE find_by_template(feed, IF Truthy(keys) THEN keys
                                                 ELSE portion.keys)
         IN  loop_results([n \in 1..Len(raw_dict) |-> parsed_dict(raw_dict[n])])

\* the mutant starts `iocs = []` anew for every feed
get_iocs_ResetPerFeed(portion, keys, filter_map, ignore, check_existence) ==
    IF ~Truthy(portion.iocs_keys) /\ ~Truthy(keys) THEN Raised("ParserException")
    ELSE IF Truthy(keys) /\ validate_set_iocs_keys_input(keys) # "ok"
    THEN Raised("InputException")
    ELSE LET iocs_keys == IF Truthy(keys) THEN keys ELSE portion.iocs_keys
             raw_dict == feeds_of(portion)
             unpacked(feed, value) ==
                 LET accepts == filter_accepts(feed, filter_map, ignore, check_existence)
                     ioc == find_element_by_key(feed, value.s)
                 IN  IF IsRaised(accepts) THEN accepts
                     ELSE IF ~accepts.b THEN Continue
                     ELSE IF IsRaised(ioc) THEN ioc
                     ELSE unpack_iocs(ioc)
             iocs(value) ==
                 LET lists == loop_results([n \in 1..Len(raw_dict) |->
                                               unpacked(raw_dict[n], value)])
                 IN  IF IsRaised(lists) THEN lists
                     ELSE IF lists.l = <<>> THEN EmptyList
                     ELSE lists.l[Len(lists.l)]
             iocs_dict == [key \in DOMAIN iocs_keys.d |-> iocs(iocs_keys.d[key])]
         IN  IF iocs_keys.t # "dict" THEN Raised("AttributeError")
             ELSE IF \E key \in DOMAIN iocs_keys.d : IsRaised(iocs_dict[key])
             THEN iocs_dict[CHOOSE key \in DOMAIN iocs_keys.d : IsRaised(iocs_dict[key])]
             ELSE PyDict(iocs_dict)

\* Parser.get_iocs (as_json = False); keys is None when not given
get_iocs(portion, keys, filter_map, ignore, check_existence) ==
    IF ~Truthy(portion.iocs_keys) /\ ~Truthy(keys) THEN Raised("ParserException")
    ELSE IF Truthy(keys) /\ validate_set_iocs_keys_input(keys) # "ok"
    THEN Raised("InputException")
    ELSE LET iocs_keys == IF Truthy(keys) THEN keys ELSE portion.iocs_keys
             raw_dict == feeds_of(portion)
             unpacked(feed, value) ==
                 LET accepts == filter_accepts(feed, filter_map, ignore, check_existence)
                     ioc == find_element_by_key(feed, value.s)
                 IN  IF IsRaised(accepts) THEN accepts
                     ELSE IF ~accepts.b THEN Continue
                     ELSE IF IsRaised(ioc) THEN ioc
                     ELSE unpack_iocs(ioc)
             iocs(value) ==
                 LET lists == loop_results([n \in 1..Len(raw_dict) |->
                                               unpacked(raw_dict[n], value)])
                 IN  IF IsRaised(lists) THEN lists ELSE PyList(extend_all(lists.l))
             iocs_dict == [key \in DOMAIN iocs_keys.d |-> iocs(iocs_keys.d[key])]
         IN  IF iocs_keys.t # "dict" THEN Raised("AttributeError")
             ELSE IF \E key \in DOMAIN iocs_keys.d : IsRaised(iocs_dict[key])
             THEN iocs_dict[CHOOSE key \in DOMAIN iocs_keys.d : IsRaised(iocs_dict[key])]
             ELSE PyDict(iocs_dict)

----------------------------------------------------------------------------
(* TIAPoller.send_request: the request that goes out for (endpoint, params) *)

send_request(endpoint, params) ==
    [endpoint |-> endpoint,
     params |-> params,
     sent |-> [k \in {p \in DOMAIN params : Truthy(params[p])} |-> PyToStr(params[k])]]

----------------------------------------------------------------------------
(* FeedGenerator, UpdateFeedGenerator, SearchFeedGenerator.  A generator   *)
(* object g holds a reference to its GeneratorInfo; the operators below    *)
(* take the referenced object as info.                                     *)

\* UpdateFeedGenerator.__init__ (with FeedGenerator.__init__)
UpdateFeedGenerator(info_ref, info, sequpdate) ==
    [class |-> "UpdateFeedGenerator", gen |-> "created",
     i |-> 0, total_amount |-> 0, generator_info |-> info_ref,
     endpoint |-> info.collection_name \o "/updated",
     sequpdate |-> sequpdate]

\* SearchFeedGenerator.__init__ (with FeedGenerator.__init__)
SearchFeedGenerator(info_ref, info) ==
    [class |-> "SearchFeedGenerator", gen |-> "created",
     i |-> 0, total_amount |-> 0, generator_info |-> info_ref,
     endpoint |-> info.collection_name,
     result_id |-> None]

\* FeedGenerator._get_params
base_get_params(info) ==
    [df |-> info.date_from, dt |-> info.date_to, q |-> info.query,
     limit |-> info.limit, apply_hunting_rules |-> info.apply_hunting_rules]

\* UpdateFeedGenerator._get_params / SearchFeedGenerator._get_params
get_params(g, info) ==
    IF g.class = "UpdateFeedGenerator"
    THEN base_get_params(info) @@ ("seqUpdate" :> g.sequpdate)
    ELSE base_get_params(info) @@ ("resultId" :> g.result_id)

\* the mutant advances the update cursor only when the page carries one
reset_params_KeepCursorOnNull(g, info, portion) ==
    IF g.class = "UpdateFeedGenerator"
    THEN [g |-> [g EXCEPT !.sequpdate = IF portion.sequpdate # None
                                        THEN portion.sequpdate ELSE g.sequpdate],
          info |-> [info EXCEPT !.date_from = None]]
    ELSE [g |-> [g EXCEPT !.result_id = portion.result_id],
          info |-> [info EXCEPT !.date_from = None, !.date_to = None, !.query = None]]

\* the mutant clears dateTo and query of an update session as well
reset_params_UpdateClearsAll(g, info, portion) ==
    IF g.class = "UpdateFeedGenerator"
    THEN [g |-> [g EXCEPT !.sequpdate = portion.sequpdate],
          info |-> [info EXCEPT !.date_from = None, !.date_to = None, !.query = None]]
    ELSE [g |-> [g EXCEPT !.result_id = portion.result_id],
          info |-> [info EXCEPT !.date_from = None, !.date_to = None, !.query = None]]

\* the mutant clears only dateFrom of a search session
reset_params_SearchKeepsQuery(g, info, portion) ==
    IF g.class = "UpdateFeedGenerator"
    THEN [g |-> [g EXCEPT !.sequpdate = portion.sequpdate],
          info |-> [info EXCEPT !.date_from = None]]
    ELSE [g |-> [g EXCEPT !.result_id = portion.result_id],
          info |-> [info EXCEPT !.date_from = None]]

\* UpdateFeedGenerator._reset_params / SearchFeedGenerator._reset_params:
\* the generator and its GeneratorInfo after the call
reset_params(g, info, portion) ==
    IF g.class = "UpdateFeedGenerator"
    THEN [g |-> [g EXCEPT !.sequpdate = portion.sequpdate],
          info |-> [info EXCEPT !.date_from = None]]
    ELSE [g |-> [g EXCEPT !.result_id = portion.result_id],
          info |-> [info EXCEPT !.date_from = None, !.date_to = None, !.query = None]]

\* the mutant stops on the count field instead of the size of the item list
is_last_ByCount(g, portion) == portion.count = PyInt(0)

\* the mutant also stops once total_amount has reached the count of the page
is_last_CountReached(g, portion) ==
    \/ portion.portion_size = 0
    \/ /\ portion.count # None
       /\ g.total_amount + portion.portion_size >= portion.count.n

\* the loop of create_generator stops on this portion
is_last(g, portion) == portion.portion_size = 0

ConnectionFailure == [exc |-> "ConnectionException"]

\* the mutant fetches one page ahead of the consumer
resume_Prefetch(g, info, response) ==
    LET g1 == [g EXCEPT !.i = g.i + 1]
        request == send_request(g1.endpoint, get_params(g1, info))
        portion == Parser(response, info.keys, info.iocs_keys)
        counted == [g1 EXCEPT !.total_amount = g1.total_amount + portion.portion_size]
        reset == reset_params(counted, info, portion)
    IN  IF response = ConnectionFailure
        THEN [g |-> [g1 EXCEPT !.gen = "closed"], info |-> info,
              requests |-> <<request, request>>, out |-> "ConnectionException", portion |-> None]
        ELSE IF is_last(g1, portion)
        THEN [g |-> [g1 EXCEPT !.gen = "closed"], info |-> info,
              requests |-> <<request, request>>, out |-> "StopIteration", portion |-> None]
        ELSE [g |-> [reset.g EXCEPT !.gen = "suspended"], info |-> reset.info,
              requests |-> <<request, request>>, out |-> "portion", portion |-> portion]

\* the mutant catches the connection failure and ends the session quietly
resume_SwallowFailure(g, info, response) ==
    LET g1 == [g EXCEPT !.i = g.i + 1]
        request == send_request(g1.endpoint, get_params(g1, info))
        portion == Parser(response, info.keys, info.iocs_keys)
        counted == [g1 EXCEPT !.total_amount = g1.total_amount + portion.portion_size]
        reset == reset_params(counted, info, portion)
    IN  IF response = ConnectionFailure
        THEN [g |-> [g1 EXCEPT !.gen = "closed"], info |-> info,
              requests |-> <<request>>, out |-> "StopIteration", portion |-> None]
        ELSE IF is_last(g1, portion)
        THEN [g |-> [g1 EXCEPT !.gen = "closed"], info |-> info,
              requests |-> <<request>>, out |-> "StopIteration", portion |-> None]
        ELSE [g |-> [reset.g EXCEPT !.gen = "suspended"], info |-> reset.info,
              requests |-> <<request>>, out |-> "portion", portion |-> portion]

\* the mutant resets the parameters from the portion before it tests its size
resume_ResetBeforeBreak(g, info, response) ==
    LET g1 == [g EXCEPT !.i = g.i + 1]
        request == send_request(g1.endpoint, get_params(g1, info))
        portion == Parser(response, info.keys, info.iocs_keys)
        counted == [g1 EXCEPT !.total_amount = g1.total_amount + portion.portion_size]
        reset == reset_params(counted, info, portion)
    IN  IF response = ConnectionFailure
        THEN [g |-> [g1 EXCEPT !.gen = "closed"], info |-> info,
              requests |-> <<request>>, out |-> "ConnectionException", portion |-> None]
        ELSE IF is_last(g1, portion)
        THEN [g |-> [reset.g EXCEPT !.gen = "closed"], info |-> reset.info,
              requests |-> <<request>>, out |-> "StopIteration", portion |-> None]
        ELSE [g |-> [reset.g EXCEPT !.gen = "suspended"], info |-> reset.info,
              requests |-> <<request>>, out |-> "portion", portion |-> portion]

\* One next() on a generator that is not closed: FeedGenerator.create_generator
\* from its resume point to the next yield, break or raise.  response is what
\* the transport does with the request: a page, or ConnectionFailure.
resume(g, info, response) ==
    LET g1 == [g EXCEPT !.i = g.i + 1]
        request == send_request(g1.endpoint, get_params(g1, info))
        portion == Parser(response, info.keys, info.iocs_keys)
        counted == [g1 EXCEPT !.total_amount = g1.total_amount + portion.portion_size]
        reset == reset_params(counted, info, portion)
    IN  IF response = ConnectionFailure
        THEN [g |-> [g1 EXCEPT !.gen = "closed"], info |-> info,
              requests |-> <<request>>, out |-> "ConnectionException", portion |-> None]
        ELSE IF is_last(g1, portion)
        THEN [g |-> [g1 EXCEPT !.gen = "closed"], info |-> info,
              requests |-> <<request>>, out |-> "StopIteration", portion |-> None]
        ELSE [g |-> [reset.g EXCEPT !.gen = "suspended"], info |-> reset.info,
              requests |-> <<request>>, out |-> "portion", portion |-> portion]

\* the mutant runs the loop again on a generator that has ended
next_gen_Restart(g, info, response) == resume(g, info, response)

\* next(generator): a closed generator raises StopIteration and runs no code
next_gen(g, info, response) ==
    IF g.gen = "closed"
    THEN [g |-> g, info |-> info, requests |-> <<>>, out |-> "StopIteration",
          portion |-> None]
    ELSE resume(g, info, response)

----------------------------------------------------------------------------
(* What the callers pass in and what the server answers.                   *)

CollectionInputs ==
    {"compromised/account", "attacks/ddos", "compromised/breached",
     "compromised/reaper", "no/such_collection"}

NoArgsGiven ==
    [date_from |-> None, date_to |-> None, query |-> None, limit |-> None,
     apply_hunting_rules |-> None, sequpdate |-> None]

AllArgsGiven ==
    [date_from |-> PyStr("2021-01-01"), date_to |-> PyStr("2021-02-01"),
     query |-> PyStr("evil"), limit |-> PyInt(10),
     apply_hunting_rules |-> PyInt(1), sequpdate |-> PyInt(5)]

CallArgs ==
    { NoArgsGiven,
      AllArgsGiven,
      [NoArgsGiven EXCEPT !.date_from = PyStr("2021-01-01T00:00:00Z"),
                          !.sequpdate = PyInt(0)],
      [NoArgsGiven EXCEPT !.date_to = PyStr("2021-02-01"), !.query = PyStr("evil"),
                          !.limit = PyStr("10")],
      [NoArgsGiven EXCEPT !.date_from = PyStr("yesterday")],
      [NoArgsGiven EXCEPT !.limit = PyStr("many")] }

LookupCollections == {"compromised/account", "compromised/breached", "no/such_collection"}

\* what the two-session runs are created with
PairCollections == {"compromised/account", "compromised/breached"}

PairArgs == {NoArgsGiven, AllArgsGiven}

FeedIds == {"f1"}

Feed(id) == PyDict([id |-> PyStr(id)])

Pages ==
    { PyDict([count |-> PyInt(6), items |-> PyList(<<Feed("a"), Feed("b"), Feed("c")>>),
              seqUpdate |-> PyInt(100), resultId |-> PyStr("abc")]),
      PyDict([count |-> PyInt(6), items |-> PyList(<<Feed("d")>>),
              seqUpdate |-> PyInt(200), resultId |-> PyStr("def")]),
      Feed("f1"),
      PyDict([count |-> PyInt(6), items |-> EmptyList,
              seqUpdate |-> PyInt(300), resultId |-> PyStr("ghi")]),
      PyDict([count |-> PyInt(0)]) }

Responses == Pages \cup {ConnectionFailure}

\* the pages above, a page whose count is null, one whose count is 0 with an
\* item, and one with a count and a mapping without keys for its items
SessionPages ==
    Pages \cup
    { PyDict([count |-> None, items |-> EmptyList]),
      PyDict([count |-> PyInt(0), items |-> PyList(<<Feed("e")>>)]),
      PyDict([count |-> PyInt(1), items |-> EmptyDict, seqUpdate |-> PyInt(400)]) }

SessionResponses == SessionPages \cup {ConnectionFailure}

\* the pages on which the loop of create_generator stops
LastPages == {page \in SessionPages : Parser(page, None, None).portion_size = 0}

\* feeds of one collection: with a severity, without the evaluation block, with
\* a null block and with a list where the severity goes
FeedRed ==
    PyDict([id |-> PyStr("a"),
            evaluation |-> PyDict([severity |-> PyStr("red")]),
            ip |-> PyList(<<PyStr("1.2.3.4"), PyStr("0.0.0.0")>>)])

FeedGreen ==
    PyDict([id |-> PyStr("b"),
            evaluation |-> PyDict([severity |-> PyStr("green")]),
            ip |-> EmptyList])

FeedBare == PyDict([id |-> PyStr("c")])

FeedNull == PyDict([id |-> PyStr("d"), evaluation |-> None])

FeedList ==
    PyDict([id |-> PyStr("e"),
            evaluation |-> PyDict([severity |-> PyList(<<PyStr("red")>>)])])

\* what the server answers to the lookups whose portions are parsed
ParserPages ==
    { PyDict([count |-> PyInt(3), items |-> PyList(<<FeedRed, FeedGreen, FeedBare>>),
              seqUpdate |-> PyInt(100), resultId |-> PyStr("abc")]),
      PyDict([count |-> PyInt(2), items |-> PyList(<<FeedRed, FeedNull>>)]),
      PyDict([count |-> PyInt(2), items |-> PyList(<<FeedList, FeedRed>>)]),
      FeedRed,
      PyDict([count |-> PyInt(0), items |-> EmptyList]),
      PyDict([count |-> PyInt(0)]) }

ParserResponses == ParserPages \cup {ConnectionFailure}

ParserCollections == {"compromised/account"}

\* templates handed to set_keys and to parse_portion(keys=...)
KeysNested ==
    PyDict([id |-> PyStr("id"),
            risk |-> PyDict([level |-> PyStr("evaluation.severity")]),
            source |-> PyStr("*feed")])

KeysDeep == PyDict([addr |-> PyStr("ip.v4")])

KeysInputs ==
    { KeysNested, KeysDeep, EmptyDict, PyStr("id"),
      PyDict([risk |-> PyDict([level |-> None])]),
      PyList(<<PyStr("id")>>) }

\* templates handed to set_iocs_keys and to get_iocs(keys=...)
IocsKeys == PyDict([ips |-> PyStr("ip")])

IocsKeysInputs ==
    { IocsKeys, PyStr("ip"), PyDict([ips |-> PyDict([v4 |-> PyStr("ip")])]) }

\* the feeds of the set_keys and set_iocs_keys docstrings, and their template
DocFeed1 ==
    PyDict([iocs |-> PyDict([network |-> PyList(<<
        PyDict([ip |-> PyList(<<PyInt(1), PyInt(2)>>), url |-> PyStr("url.com")]),
        PyDict([ip |-> PyList(<<PyInt(3)>>), url |-> PyStr("")]) >>)])])

DocFeed2 ==
    PyDict([iocs |-> PyDict([network |-> PyList(<<
        PyDict([ip |-> PyList(<<PyInt(4), PyInt(5)>>), url |-> PyStr("new_url.com")])
        >>)])])

DocFeeds == {DocFeed1, DocFeed2}

\* the template of the set_iocs_keys docstring
DocIocsKeys == PyDict([ips |-> PyStr("iocs.network.ip"), url |-> PyStr("iocs.network.url")])

\* an IOC template with a path into the elements of the address list
IocsKeysDeep == PyDict([ips |-> PyStr("ip"), v4 |-> PyStr("ip.v4")])

\* the pages whose IOCs are collected: the pages above, the feeds of the
\* docstring, the same feed twice, and feeds whose addresses are nested lists
IocsPages ==
    ParserPages \cup
    { PyDict([count |-> PyInt(2), items |-> PyList(<<DocFeed1, DocFeed2>>)]),
      PyDict([count |-> PyInt(2), items |-> PyList(<<FeedRed, FeedRed>>)]),
      PyDict([count |-> PyInt(2), items |-> PyList(<<
          PyDict([ip |-> PyList(<<PyList(<<PyStr("8.8.8.8")>>), PyStr("")>>)]),
          PyDict([ip |-> PyStr("8.8.8.8")]) >>)]) }

\* the IOC templates they are collected with
IocsTemplates == IocsKeysInputs \cup {DocIocsKeys, IocsKeysDeep}

DocKeys ==
    PyDict([network |-> PyDict([ips |-> PyStr("iocs.network.ip")]),
            url |-> PyStr("iocs.network.url"),
            type |-> PyStr("*network")])

\* lists of at most MaxLen elements of S, dicts with keys among K and values in S
ListsOf(S) == {PyList(l) : l \in UNION {[1..n -> S] : n \in 0..MaxLen}}
DictsOf(K, S) == {PyDict(d) : d \in UNION {[D -> S] : D \in SUBSET K}}

\* every JSON value of two levels over null and 1 with keys a and b, each of
\* them again under the key a, lists of address strings flat and nested, and
\* the feeds above
Leaves == {None, PyInt(1)}
Level1 == Leaves \cup ListsOf(Leaves) \cup DictsOf({"a", "b"}, Leaves)
Level2 == Level1 \cup ListsOf(Level1) \cup DictsOf({"a", "b"}, Level1)

Addresses ==
    {PyStr("1.2.3.4"), PyStr("8.8.8.8"), PyStr("0.0.0.0"), PyStr("255.255.255.255"),
     PyStr("")}

Nodes ==
    Level2 \cup {PyDict([a |-> node]) : node \in Level2}
           \cup ListsOf(Addresses \cup {None})
           \cup ListsOf(ListsOf({PyStr("1.2.3.4"), PyStr("8.8.8.8")}))
           \cup {PyList(<<PyList(<<PyStr("1.2.3.4"), PyStr("0.0.0.0")>>),
                           PyList(<<PyStr("")>>)>>)}
           \cup {PyList(<<PyDict([a |-> PyInt(1)]), PyDict([a |-> PyInt(2)])>>),
                 PyDict([x |-> PyList(<<PyDict([y |-> PyInt(1)]),
                                        PyDict([y |-> PyInt(2)])>>)])}
           \cup DocFeeds \cup {FeedRed, FeedNull, FeedList}

\* the dot paths looked up in them
Paths == {"a", "b", "a.b", "a.a", "a.a.b", "", "a.", "x.y", "iocs.network.ip"}

\* the templates they are projected through
HelperKeys ==
    { DocKeys, KeysNested,
      PyDict([type |-> PyStr("*malware")]),
      PyDict([star |-> PyStr("**"), none |-> PyStr("*"), a |-> PyStr("a"),
              deep |-> PyDict([ab |-> PyStr("a.b"), lit |-> PyStr("*a.b")])]),
      EmptyDict }

\* filter_map, ignore and check_existence of a parse_portion or get_iocs call
NoFilter == [filter_map |-> None, ignore |-> FALSE, check_existence |-> FALSE]

FilterMaps ==
    { PyList(<<PyStr("evaluation.severity"), PyList(<<PyStr("red")>>)>>),
      PyList(<<PyStr("evaluation.severity"), EmptyList>>) }

FilterInputs ==
    {NoFilter} \cup [filter_map : FilterMaps, ignore : BOOLEAN, check_existence : BOOLEAN]
               \cup [filter_map : {None, EmptyList}, ignore : BOOLEAN, check_existence : BOOLEAN]

----------------------------------------------------------------------------
(* StateManager.  The state file is the text it holds; a dict is kept as   *)
(* the sequence of its (key, value) pairs in insertion order, as json.dump *)
(* writes it and json.load reads it back.                                  *)

\* d[key] = value on a dict kept as a sequence of pairs
entry_set(entry, key, value) ==
    IF \E n \in 1..Len(entry) : entry[n][1] = key
    THEN [n \in 1..Len(entry) |-> IF entry[n][1] = key THEN <<key, value>> ELSE entry[n]]
    ELSE Append(entry, <<key, value>>)

\* d.get(key)
entry_get(entry, key) ==
    IF \E n \in 1..Len(entry) : entry[n][1] = key
    THEN entry[CHOOSE n \in 1..Len(entry) : entry[n][1] = key][2]
    ELSE None

\* json.dumps of a value: an int or null
json_value(v) == IF v = None THEN "null" ELSE ToString(v.n)

\* json.dumps of a dict of collection names to such values
RECURSIVE json_items(_)
json_items(entry) ==
    IF entry = <<>> THEN ""
    ELSE "\"" \o entry[1][1] \o "\": " \o json_value(entry[1][2])
         \o (IF Len(entry) > 1 THEN ", " ELSE "") \o json_items(Tail(entry))

json_dumps(entry) == "{" \o json_items(entry) \o "}"

\* the collections whose cursors are kept and the cursors dumped for them
StateCollections == {"compromised/account", "attacks/ddos"}
StateValues == {PyInt(0), PyInt(5), PyInt(100)}

\* every dict of collections to cursors
StateEntries ==
    {<<>>} \cup {<<<<c, v>>>> : c \in StateCollections, v \in StateValues}
           \cup UNION {{<<<<c1, v1>>, <<c2, v2>>>> : c2 \in StateCollections \ {c1},
                              v1 \in StateValues, v2 \in StateValues} :
                           c1 \in StateCollections}

JSONDecodeError == Raised("JSONDecodeError")

\* json.loads: the dict the text is the dump of, JSONDecodeError for the empty
\* text, for text that is no JSON and for text that goes on after the dict
json_loads(text) ==
    IF \E entry \in StateEntries : json_dumps(entry) = text
    THEN PyDict(CHOOSE entry \in StateEntries : json_dumps(entry) = text)
    ELSE JSONDecodeError

\* stream.write(text) at a position: what the file holds afterwards
write_at(file, pos, text) ==
    SubSeq(file, 1, pos) \o text \o SubSeq(file, pos + Len(text) + 1, Len(file))

\* stream.truncate() at a position
truncate(file, pos) == SubSeq(file, 1, pos)

\* stream.read() from a position to the end of the file
read_from(file, pos) == SubSeq(file, pos + 1, Len(file))

----------------------------------------------------------------------------
(* The state machine.                                                      *)

NoSession == [gen |-> "absent"]
NoArgs == [kind |-> "none"]
NoObject == [collection_name |-> "", session_type |-> "none"]
NoCall == [op |-> "none"]

\* next() calls and search_feed_by_id requests made so far
TotalCalls == result[1].pulls + result[2].pulls + Len(lookup.fetched)

\* the mutant keeps one GeneratorInfo object for every session of the poller
new_info_ref_Shared(s) == 1

\* GeneratorInfo(...) in create_*_generator constructs a new object per call
new_info_ref(s) == s

\* no session was created yet
NoSessions ==
    /\ sess = [s \in Sessions |-> NoSession]
    /\ result = [s \in Sessions |-> [out |-> "none", pulls |-> 0]]
    /\ args = [s \in Sessions |-> NoArgs]
    /\ fetched = [s \in Sessions |-> <<>>]
    /\ received = [s \in Sessions |-> <<>>]
    /\ yielded = [s \in Sessions |-> <<>>]
    /\ heap = [r \in Sessions |-> NoObject]

\* TIAPoller.__init__, and no session, lookup or Parser call made yet
Constructed ==
    /\ NoSessions
    /\ lookup = [collection_name |-> "", fetched |-> <<>>, out |-> "none",
                 portion |-> None]
    /\ _keys = EmptyDict
    /\ _iocs_keys = EmptyDict
    /\ call = NoCall

\* no StateManager was constructed and there is no state file
NoManager == [stream |-> "absent"]

Init == Constructed /\ helper = NoCall /\ manager = NoManager

\* TIAPoller.create_update_generator, the returned generator bound to handle s
create_update_generator(s, c, a) ==
    /\ sess[s].gen = "absent"
    /\ LET info == GeneratorInfo(c, "update", a.date_from, a.date_to, a.query,
                                 a.limit, a.apply_hunting_rules,
                                 Get(_keys, c, None), Get(_iocs_keys, c, None))
           exc == post_init(info)
           ref == new_info_ref(s)
       IN  IF exc # "ok"
           THEN /\ result' = [result EXCEPT ![s].out = exc]
                /\ UNCHANGED <<sess, heap>>
           ELSE /\ heap' = [heap EXCEPT ![ref] = info]
                /\ sess' = [sess EXCEPT ![s] = UpdateFeedGenerator(ref, info, a.sequpdate)]
                /\ result' = [result EXCEPT ![s].out = "generator"]
    /\ args' = [args EXCEPT ![s] =
                  [kind |-> "update", collection_name |-> c,
                   keys |-> Get(_keys, c, None),
                   iocs_keys |-> Get(_iocs_keys, c, None)] @@ a]
    /\ UNCHANGED <<fetched, received, yielded, lookup, _keys, _iocs_keys, call, helper, manager>>

\* TIAPoller.create_search_generator, the returned generator bound to handle s
create_search_generator(s, c, a) ==
    /\ sess[s].gen = "absent"
    /\ LET info == GeneratorInfo(c, "search", a.date_from, a.date_to, a.query,
                                 a.limit, a.apply_hunting_rules,
                                 Get(_keys, c, None), Get(_iocs_keys, c, None))
           exc == post_init(info)
           ref == new_info_ref(s)
       IN  IF exc # "ok"
           THEN /\ result' = [result EXCEPT ![s].out = exc]
                /\ UNCHANGED <<sess, heap>>
           ELSE /\ heap' = [heap EXCEPT ![ref] = info]
                /\ sess' = [sess EXCEPT ![s] = SearchFeedGenerator(ref, info)]
                /\ result' = [result EXCEPT ![s].out = "generator"]
    /\ args' = [args EXCEPT ![s] =
                  [kind |-> "search", collection_name |-> c,
                   keys |-> Get(_keys, c, None),
                   iocs_keys |-> Get(_iocs_keys, c, None)]
                     @@ [a EXCEPT !.sequpdate = None]]
    /\ UNCHANGED <<fetched, received, yielded, lookup, _keys, _iocs_keys, call, helper, manager>>

\* the mutant reads the templates of the poller anew at every next()
next_on_CurrentTemplates(s, response) ==
    /\ LET ref == sess[s].generator_info
           info == [heap[ref] EXCEPT !.keys = Get(_keys, heap[ref].collection_name, None),
                                     !.iocs_keys = Get(_iocs_keys, heap[ref].collection_name, None)]
           r == next_gen(sess[s], info, response)
       IN  /\ sess' = [sess EXCEPT ![s] = r.g]
           /\ heap' = [heap EXCEPT ![ref] = r.info]
           /\ fetched' = [fetched EXCEPT ![s] = @ \o r.requests]
           /\ received' = [received EXCEPT ![s] =
                              IF r.requests = <<>> THEN @ ELSE Append(@, response)]
           /\ yielded' = [yielded EXCEPT ![s] =
                             IF r.out = "portion" THEN Append(@, r.portion) ELSE @]
           /\ result' = [result EXCEPT ![s] = [out |-> r.out, pulls |-> @.pulls + 1]]
    /\ UNCHANGED <<args, lookup, _keys, _iocs_keys, call, helper, manager>>

\* next(generator) on the generator of handle s: what it does to the session
next_on(s, response) ==
    /\ LET ref == sess[s].generator_info
           r == next_gen(sess[s], heap[ref], response)
       IN  /\ sess' = [sess EXCEPT ![s] = r.g]
           /\ heap' = [heap EXCEPT ![ref] = r.info]
           /\ fetched' = [fetched EXCEPT ![s] = @ \o r.requests]
           /\ received' = [received EXCEPT ![s] =
                              IF r.requests = <<>> THEN @ ELSE Append(@, response)]
           /\ yielded' = [yielded EXCEPT ![s] =
                             IF r.out = "portion" THEN Append(@, r.portion) ELSE @]
           /\ result' = [result EXCEPT ![s] = [out |-> r.out, pulls |-> @.pulls + 1]]
    /\ UNCHANGED <<args, lookup, _keys, _iocs_keys, call, helper, manager>>

\* next(generator) by the consumer holding handle s
Pull(s, response) ==
    /\ sess[s].gen # "absent"
    /\ TotalCalls < MaxCalls
    /\ next_on(s, response)

\* next(generator) by a consumer that pulls until the session is over; the
\* server answers with at most MaxCalls failures and pages that are not empty
PullUntilOver(s, response) ==
    /\ sess[s].gen \notin {"absent", "closed"}
    /\ \/ TotalCalls < MaxCalls
       \/ response # ConnectionFailure /\ Parser(response, None, None).portion_size = 0
    /\ next_on(s, response)

\* TIAPoller.search_feed_by_id
search_feed_by_id(c, feed_id, response) ==
    /\ TotalCalls < MaxCalls
    /\ call' = [op |-> "search_feed_by_id"]
    /\ IF validate_collection_name(c, "none") # "ok"
       THEN lookup' = [lookup EXCEPT !.collection_name = c, !.out = "InputException",
                                     !.portion = None]
       ELSE LET request == send_request(c \o "/" \o feed_id, <<>>)
            IN  IF response = ConnectionFailure
                THEN lookup' = [collection_name |-> c,
                                fetched |-> Append(lookup.fetched, request),
                                out |-> "ConnectionException", portion |-> None]
                ELSE lookup' = [collection_name |-> c,
                                fetched |-> Append(lookup.fetched, request),
                                out |-> "portion",
                                portion |-> Parser(response, Get(_keys, c, EmptyList),
                                                   Get(_iocs_keys, c, EmptyList))]
    /\ UNCHANGED <<sess, result, args, fetched, received, yielded, heap, _keys, _iocs_keys, helper, manager>>

\* TIAPoller.set_keys
set_keys(c, keys) ==
    /\ LET exc == IF validate_collection_name(c, "none") # "ok" THEN "InputException"
                  ELSE validate_set_keys_input(keys)
       IN  IF exc # "ok"
           THEN /\ call' = [op |-> "set_keys", collection_name |-> c, keys |-> keys,
                            out |-> Raised(exc)]
                /\ UNCHANGED _keys
           ELSE /\ call' = [op |-> "set_keys", collection_name |-> c, keys |-> keys,
                            out |-> None]
                /\ _keys' = SetItem(_keys, c, keys)
    /\ UNCHANGED <<sess, result, args, fetched, received, yielded, heap, lookup, _iocs_keys, helper, manager>>

\* TIAPoller.set_iocs_keys
set_iocs_keys(c, keys) ==
    /\ LET exc == IF validate_collection_name(c, "none") # "ok" THEN "InputException"
                  ELSE validate_set_iocs_keys_input(keys)
       IN  IF exc # "ok"
           THEN /\ call' = [op |-> "set_iocs_keys", collection_name |-> c, keys |-> keys,
                            out |-> Raised(exc)]
                /\ UNCHANGED _iocs_keys
           ELSE /\ call' = [op |-> "set_iocs_keys", collection_name |-> c, keys |-> keys,
                            out |-> None]
                /\ _iocs_keys' = SetItem(_iocs_keys, c, keys)
    /\ UNCHANGED <<sess, result, args, fetched, received, yielded, heap, lookup, _keys, helper, manager>>

\* portion.parse_portion(...) on the portion search_feed_by_id returned last
call_parse_portion(keys, f) ==
    /\ lookup.out = "portion"
    /\ call' = [op |-> "parse_portion", portion |-> lookup.portion, keys |-> keys,
                filter_map |-> f.filter_map, ignore |-> f.ignore,
                check_existence |-> f.check_existence,
                out |-> parse_portion(lookup.portion, keys, f.filter_map, f.ignore,
                                      f.check_existence)]
    /\ UNCHANGED <<sess, result, args, fetched, received, yielded, heap, lookup, _keys, _iocs_keys, helper, manager>>

\* portion.get_iocs(...) on the portion search_feed_by_id returned last
call_get_iocs(keys, f) ==
    /\ lookup.out = "portion"
    /\ call' = [op |-> "get_iocs", portion |-> lookup.portion, keys |-> keys,
                filter_map |-> f.filter_map, ignore |-> f.ignore,
                check_existence |-> f.check_existence,
                out |-> get_iocs(lookup.portion, keys, f.filter_map, f.ignore,
                                 f.check_existence)]
    /\ UNCHANGED <<sess, result, args, fetched, received, yielded, heap, lookup, _keys, _iocs_keys, helper, manager>>

\* One consumer: a session at a time through one handle, and lookups by id.
Next ==
    \/ \E c \in CollectionInputs, a \in CallArgs : create_update_generator(1, c, a)
    \/ \E c \in CollectionInputs, a \in CallArgs : create_search_generator(1, c, a)
    \/ \E response \in Responses : Pull(1, response)
    \/ \E c \in LookupCollections, id \in FeedIds, response \in Responses :
           search_feed_by_id(c, id, response)

Spec == Init /\ [][Next]_vars

\* Two sessions of one poller, pulled in any interleaving.
NextPair ==
    \/ \E s \in Sessions, c \in PairCollections, a \in PairArgs :
           create_update_generator(s, c, a)
    \/ \E s \in Sessions, c \in PairCollections, a \in PairArgs :
           create_search_generator(s, c, a)
    \/ \E s \in Sessions, response \in Responses : Pull(s, response)

SpecPair == Init /\ [][NextPair]_vars

\* Two sessions of one poller whose default templates are set and set again
\* while the sessions are created and pulled.
TemplatePages ==
    { PyDict([count |-> PyInt(2), items |-> PyList(<<FeedRed>>), seqUpdate |-> PyInt(100)]),
      PyDict([count |-> PyInt(2), items |-> EmptyList]) }

NextDefaults ==
    \/ \E c \in ParserCollections, k \in {KeysNested, KeysDeep} : set_keys(c, k)
    \/ \E c \in ParserCollections, k \in {IocsKeys, DocIocsKeys} : set_iocs_keys(c, k)
    \/ \E s \in Sessions, c \in ParserCollections : create_update_generator(s, c, NoArgsGiven)
    \/ \E s \in Sessions, c \in ParserCollections : create_search_generator(s, c, NoArgsGiven)
    \/ \E s \in Sessions, response \in TemplatePages : Pull(s, response)

SpecDefaults == Init /\ [][NextDefaults]_vars

\* One session whose consumer keeps pulling until it is over.
NextOver ==
    \/ \E c \in PairCollections, a \in PairArgs : create_update_generator(1, c, a)
    \/ \E c \in PairCollections, a \in PairArgs : create_search_generator(1, c, a)
    \/ \E response \in SessionResponses : PullUntilOver(1, response)

\* the consumer keeps pulling and the server comes to answer with a page on
\* which the loop stops
SpecOver ==
    /\ Init
    /\ [][NextOver]_vars
    /\ WF_vars(\E response \in LastPages : PullUntilOver(1, response))

\* One consumer configuring templates, looking feeds up by id and parsing the
\* portion it got, without a filter.
NextTemplates ==
    \/ \E c \in ParserCollections, k \in KeysInputs : set_keys(c, k)
    \/ \E c \in ParserCollections, k \in IocsKeysInputs : set_iocs_keys(c, k)
    \/ \E c \in ParserCollections, id \in FeedIds, response \in ParserResponses :
           search_feed_by_id(c, id, response)
    \/ \E k \in KeysInputs \cup {None} : call_parse_portion(k, NoFilter)
    \/ \E k \in IocsKeysInputs \cup {None} : call_get_iocs(k, NoFilter)

SpecTemplates == Init /\ [][NextTemplates]_vars

\* The poller after its templates were configured and one lookup was made: the
\* portion in hand wraps any of the pages, with any default template.
InitFilter ==
    \E c \in ParserCollections, id \in FeedIds, page \in ParserPages,
       k \in {EmptyList, KeysNested, KeysDeep}, i \in {EmptyList, IocsKeys} :
        /\ NoSessions
        /\ _keys = IF k = EmptyList THEN EmptyDict ELSE SetItem(EmptyDict, c, k)
        /\ _iocs_keys = IF i = EmptyList THEN EmptyDict ELSE SetItem(EmptyDict, c, i)
        /\ lookup = [collection_name |-> c,
                     fetched |-> <<send_request(c \o "/" \o id, <<>>)>>,
                     out |-> "portion", portion |-> Parser(page, k, i)]
        /\ call = [op |-> "search_feed_by_id"]
        /\ helper = NoCall
        /\ manager = NoManager

\* The Parser methods applied to the portion in hand, with and without a filter.
NextFilter ==
    \/ \E k \in KeysInputs \cup {None}, f \in FilterInputs : call_parse_portion(k, f)
    \/ \E k \in IocsKeysInputs \cup {None}, f \in FilterInputs : call_get_iocs(k, f)

SpecFilter == InitFilter /\ [][NextFilter]_vars

\* The poller after one lookup: the portion in hand wraps any of the pages
\* whose IOCs are collected, with any default IOC template.
InitIocs ==
    \E c \in ParserCollections, id \in FeedIds, page \in IocsPages,
       i \in {EmptyList, IocsKeys, DocIocsKeys, IocsKeysDeep} :
        /\ NoSessions
        /\ _keys = EmptyDict
        /\ _iocs_keys = IF i = EmptyList THEN EmptyDict ELSE SetItem(EmptyDict, c, i)
        /\ lookup = [collection_name |-> c,
                     fetched |-> <<send_request(c \o "/" \o id, <<>>)>>,
                     out |-> "portion", portion |-> Parser(page, EmptyList, i)]
        /\ call = [op |-> "search_feed_by_id"]
        /\ helper = NoCall
        /\ manager = NoManager

\* get_iocs applied to the portion in hand, without a filter.
NextIocs == \E k \in IocsTemplates \cup {None} : call_get_iocs(k, NoFilter)

SpecIocs == InitIocs /\ [][NextIocs]_vars

\* A value in hand, of any shape, and no helper call made on it yet.
InitHelper ==
    /\ Constructed
    /\ helper \in [op : {"none"}, obj : Nodes]
    /\ manager = NoManager

\* ParserHelper.find_element_by_key(obj, key) on the value in hand
call_find_element_by_key(key) ==
    /\ helper.op = "none"
    /\ helper' = [op |-> "find_element_by_key", obj |-> helper.obj, key |-> key,
                  out |-> find_element_by_key(helper.obj, key)]
    /\ UNCHANGED <<sess, result, args, fetched, received, yielded, heap, lookup, _keys, _iocs_keys, call, manager>>

\* ParserHelper.unpack_iocs(ioc) on the value in hand
call_unpack_iocs ==
    /\ helper.op = "none"
    /\ helper' = [op |-> "unpack_iocs", obj |-> helper.obj,
                  out |-> unpack_iocs(helper.obj)]
    /\ UNCHANGED <<sess, result, args, fetched, received, yielded, heap, lookup, _keys, _iocs_keys, call, manager>>

\* ParserHelper.find_by_template(feed, keys) on the value in hand
call_find_by_template(keys) ==
    /\ helper.op = "none"
    /\ helper' = [op |-> "find_by_template", obj |-> helper.obj, keys |-> keys,
                  out |-> find_by_template(helper.obj, keys)]
    /\ UNCHANGED <<sess, result, args, fetched, received, yielded, heap, lookup, _keys, _iocs_keys, call, manager>>

NextHelper ==
    \/ \E key \in Paths : call_find_element_by_key(key)
    \/ call_unpack_iocs
    \/ \E keys \in HelperKeys : call_find_by_template(keys)

SpecHelper == InitHelper /\ [][NextHelper]_vars

\* StateManager(): a new manager in hand, the state file as it was left
StateManager_init ==
    /\ manager.stream # "open"
    /\ manager' = [manager EXCEPT !.stream = "none", !.pos = 0,
                                  !.state_file_entry = <<>>,
                                  !.op = "__init__", !.name_of_collection = "",
                                  !.out = None]
    /\ UNCHANGED <<sess, result, args, fetched, received, yielded, heap, lookup, _keys, _iocs_keys, call, helper>>

\* StateManager.__enter__: open(".state", "r+"), after touch() when missing
StateManager_enter ==
    /\ manager.stream # "open"
    /\ manager' = [manager EXCEPT !.exists = TRUE,
                                  !.file = IF manager.exists THEN @ ELSE "",
                                  !.stream = "open", !.pos = 0,
                                  !.first = TRUE, !.here = {},
                                  !.op = "__enter__", !.name_of_collection = "",
                                  !.out = None]
    /\ UNCHANGED <<sess, result, args, fetched, received, yielded, heap, lookup, _keys, _iocs_keys, call, helper>>

\* StateManager.__exit__
StateManager_exit ==
    /\ manager.stream = "open"
    /\ manager' = [manager EXCEPT !.stream = "closed", !.op = "__exit__",
                                  !.name_of_collection = "", !.out = None]
    /\ UNCHANGED <<sess, result, args, fetched, received, yielded, heap, lookup, _keys, _iocs_keys, call, helper>>

\* StateManager.dump
dump(name_of_collection, seq_update) ==
    /\ manager.stream = "open"
    /\ LET state_file_entry == entry_set(manager.state_file_entry, name_of_collection,
                                         seq_update)
           text == json_dumps(state_file_entry)
           written == write_at(manager.file, 0, text)
       IN  manager' = [manager EXCEPT
                          !.state_file_entry = state_file_entry,
                          !.file = truncate(written, Len(text)),
                          !.pos = Len(text),
                          !.dumped = entry_set(@, name_of_collection, seq_update),
                          !.first = FALSE, !.here = @ \cup {name_of_collection},
                          !.op = "dump", !.name_of_collection = name_of_collection,
                          !.out = None]
    /\ UNCHANGED <<sess, result, args, fetched, received, yielded, heap, lookup, _keys, _iocs_keys, call, helper>>

\* StateManager.load
load(name_of_collection) ==
    /\ manager.stream = "open"
    /\ LET loaded == json_loads(read_from(manager.file, manager.pos))
           sequpdate == entry_get(loaded.d, name_of_collection)
       IN  IF loaded = JSONDecodeError
           THEN manager' = [manager EXCEPT
                               !.pos = Len(manager.file),
                               !.was_first = manager.first, !.first = FALSE,
                               !.op = "load", !.name_of_collection = name_of_collection,
                               !.out = None]
           ELSE manager' = [manager EXCEPT
                               !.pos = Len(manager.file),
                               !.state_file_entry = loaded.d,
                               !.was_first = manager.first, !.first = FALSE,
                               !.op = "load", !.name_of_collection = name_of_collection,
                               !.out = IF sequpdate # PyInt(0) THEN sequpdate ELSE None]
    /\ UNCHANGED <<sess, result, args, fetched, received, yielded, heap, lookup, _keys, _iocs_keys, call, helper>>

\* A first StateManager in hand; no state file yet, or one that is no JSON.
\* Beside the file, the stream and the object, manager records the last call,
\* the last cursor dumped for each collection (dumped), whether the context
\* has seen no call yet (first), the collections dumped in it (here) and
\* whether the last load opened its context (was_first).
InitState ==
    /\ Constructed
    /\ helper = NoCall
    /\ \E exists \in BOOLEAN :
           manager = [exists |-> exists, file |-> IF exists THEN "not json" ELSE "",
                      stream |-> "none", pos |-> 0, state_file_entry |-> <<>>,
                      dumped |-> <<>>, first |-> FALSE, here |-> {},
                      was_first |-> FALSE, op |-> "__init__",
                      name_of_collection |-> "", out |-> None]

\* Contexts opened and closed on managers, old and new, with dumps and loads.
NextState ==
    \/ StateManager_init
    \/ StateManager_enter
    \/ StateManager_exit
    \/ \E c \in StateCollections, n \in StateValues : dump(c, n)
    \/ \E c \in StateCollections : load(c)

SpecState == InitState /\ [][NextState]_vars

\* the load just made, the cursor last dumped for its collection, what the
\* state file holds as a whole and the cursor it stores for the collection
IsLoad == manager.op = "load"
LastDumped(c) == entry_get(manager.dumped, c)
Persisted == json_loads(manager.file)
Stored(c) == IF Persisted = JSONDecodeError THEN None ELSE entry_get(Persisted.d, c)

\* C29: after dump(c, n) with n # 0, load(c) returns n, when it is called
\* later in the context of that dump and when it is the first call of a
\* later context; and load(c) returns null only if c was never dumped, the
\* file is empty or unparsable, or the stored cursor is 0.
C29_DumpLoadRoundTrip ==
    IsLoad =>
        LET c == manager.name_of_collection
        IN  /\ (/\ LastDumped(c) \notin {None, PyInt(0)}
                /\ (manager.was_first \/ c \in manager.here))
               => manager.out = LastDumped(c)
            /\ manager.out = None
               => \/ LastDumped(c) = None
                  \/ Persisted = JSONDecodeError
                  \/ Stored(c) = PyInt(0)

\* C30: the state file always holds one well-formed JSON object once a dump
\* was made, and it maps every collection to the cursor last dumped for it,
\* whichever manager and context the dumps were made in.
C30_DumpChangesOnlyItsCursor ==
    manager.dumped # <<>> =>
        /\ Persisted # JSONDecodeError
        /\ \A c \in StateCollections : Stored(c) = LastDumped(c)

----------------------------------------------------------------------------
(* Vocabulary of the properties.                                           *)

Created(s) == sess[s].gen # "absent"
IsUpdate(s) == Created(s) /\ sess[s].class = "UpdateFeedGenerator"
IsSearch(s) == Created(s) /\ sess[s].class = "SearchFeedGenerator"

IsPage(response) == response # ConnectionFailure
IsEmptyPage(response) == IsPage(response) /\ Parser(response, None, None).portion_size = 0
IsFullPage(response) == IsPage(response) /\ Parser(response, None, None).portion_size > 0

\* the session of handle s has ended on an empty page
EndedOnEmpty(s) ==
    /\ Created(s) /\ sess[s].gen = "closed"
    /\ received[s] # <<>> /\ IsEmptyPage(received[s][Len(received[s])])

\* the session of handle s was ended by a connection failure
EndedOnFailure(s) ==
    /\ Created(s) /\ sess[s].gen = "closed"
    /\ received[s] # <<>> /\ received[s][Len(received[s])] = ConnectionFailure

RECURSIVE SumSizes(_)
SumSizes(portions) ==
    IF portions = <<>> THEN 0
    ELSE portions[1].portion_size + SumSizes(Tail(portions))

\* the GeneratorInfo object of the session of handle s
InfoOf(s) == heap[sess[s].generator_info]

\* the cursor attribute of the session of handle s
CursorOf(s) == IF IsUpdate(s) THEN sess[s].sequpdate ELSE sess[s].result_id

----------------------------------------------------------------------------
(* C1: a session yields exactly the pages fetched before the first page of *)
(* size 0, in fetch order, never the size-0 page, and ends on that page    *)
(* without a further fetch: every fetched page but the last is a non-empty *)
(* page, the yielded portions are the wraps of the non-empty pages in      *)
(* order, and the session is closed as soon as the last fetch gave an      *)
(* empty page.                                                             *)
C1_YieldsUntilFirstEmptyPage ==
    \A s \in Sessions : Created(s) =>
        LET n == Len(received[s])
            m == IF n > 0 /\ ~IsFullPage(received[s][n]) THEN n - 1 ELSE n
        IN  /\ Len(fetched[s]) = n
            /\ \A k \in 1..(n - 1) : IsFullPage(received[s][k])
            /\ yielded[s] = [k \in 1..m |->
                                Parser(received[s][k], args[s].keys, args[s].iocs_keys)]
            /\ \A k \in 1..Len(yielded[s]) : yielded[s][k].portion_size > 0
            /\ (n > 0 /\ IsEmptyPage(received[s][n])) => sess[s].gen = "closed"

\* pages of sizes 3, 3, 0: two portions, three fetches, ended
C1_Witness ==
    \E s \in Sessions :
        /\ EndedOnEmpty(s)
        /\ Len(fetched[s]) = 3
        /\ Len(yielded[s]) = 2
        /\ yielded[s][1].portion_size = 3 /\ yielded[s][2].portion_size = 3

(* C2: in an update session the first fetch carries the sequpdate the      *)
(* caller gave (None when none), and fetch k+1 carries the seqUpdate field *)
(* of page k, None included.                                               *)
C2_UpdateCursorFollowsPage ==
    \A s \in Sessions : IsUpdate(s) =>
        \A k \in 1..Len(fetched[s]) :
            fetched[s][k].params["seqUpdate"] =
                IF k = 1 THEN args[s].sequpdate
                ELSE Get(received[s][k - 1], "seqUpdate", None)

\* a third fetch after a page with seqUpdate and a page without one
C2_Witness ==
    \E s \in Sessions :
        /\ IsUpdate(s) /\ Len(fetched[s]) = 3
        /\ args[s].sequpdate = PyInt(5)
        /\ fetched[s][2].params["seqUpdate"] = PyInt(100)
        /\ fetched[s][3].params["seqUpdate"] = None

(* C3: in an update session df carries its configured value on the first   *)
(* fetch only and None afterwards; dt, q, limit and apply_hunting_rules    *)
(* carry their configured values on every fetch.                           *)
C3_UpdateOnlyDateFromIsOneShot ==
    \A s \in Sessions : IsUpdate(s) =>
        \A k \in 1..Len(fetched[s]) :
            LET params == fetched[s][k].params
            IN  /\ params["df"] = IF k = 1 THEN args[s].date_from ELSE None
                /\ params["dt"] = args[s].date_to
                /\ params["q"] = args[s].query
                /\ params["limit"] = args[s].limit
                /\ params["apply_hunting_rules"] = args[s].apply_hunting_rules

\* a second fetch of an update session created with every argument given
C3_Witness ==
    \E s \in Sessions :
        /\ IsUpdate(s) /\ Len(fetched[s]) >= 2
        /\ args[s].date_from = PyStr("2021-01-01")
        /\ args[s].date_to = PyStr("2021-02-01")
        /\ args[s].query = PyStr("evil")
        /\ fetched[s][2].params["df"] = None
        /\ fetched[s][2].params["dt"] = PyStr("2021-02-01")

(* C4: in a search session the first fetch carries resultId None and the   *)
(* configured df, dt, q; fetch k+1 carries the resultId of page k and df,  *)
(* dt, q all None; limit and apply_hunting_rules never change.             *)
C4_SearchCursorAndOneShotFilters ==
    \A s \in Sessions : IsSearch(s) =>
        \A k \in 1..Len(fetched[s]) :
            LET params == fetched[s][k].params
            IN  /\ params["resultId"] =
                       IF k = 1 THEN None ELSE Get(received[s][k - 1], "resultId", None)
                /\ params["df"] = IF k = 1 THEN args[s].date_from ELSE None
                /\ params["dt"] = IF k = 1 THEN args[s].date_to ELSE None
                /\ params["q"] = IF k = 1 THEN args[s].query ELSE None
                /\ params["limit"] = args[s].limit
                /\ params["apply_hunting_rules"] = args[s].apply_hunting_rules

\* a second fetch of a search session created with every argument given
C4_Witness ==
    \E s \in Sessions :
        /\ IsSearch(s) /\ Len(fetched[s]) >= 2
        /\ args[s].query = PyStr("evil")
        /\ fetched[s][1].params["q"] = PyStr("evil")
        /\ fetched[s][2].params["resultId"] = PyStr("abc")
        /\ fetched[s][2].params["q"] = None
        /\ fetched[s][2].params["limit"] = PyInt(10)

(* C5: creating a session performs no fetch and every pull of a live       *)
(* session performs exactly one: a session that was never pulled has no    *)
(* fetch, a session suspended after n pulls has issued n fetches and       *)
(* yielded n portions, whatever else happened since its last pull, and a   *)
(* session that has ended never has more fetches than pulls.               *)
C5_OneFetchPerPull ==
    \A s \in Sessions :
        /\ sess[s].gen \in {"absent", "created"} =>
               fetched[s] = <<>> /\ result[s].pulls = 0
        /\ sess[s].gen = "suspended" =>
               /\ Len(fetched[s]) = result[s].pulls
               /\ Len(yielded[s]) = result[s].pulls
        /\ sess[s].gen = "closed" =>
               /\ Len(fetched[s]) <= result[s].pulls
               /\ Len(fetched[s]) = sess[s].i

\* a session suspended after two pulls, and a lookup made since
C5_Witness ==
    /\ sess[1].gen = "suspended" /\ result[1].pulls = 2 /\ Len(fetched[1]) = 2
    /\ Len(lookup.fetched) = 1

(* C6: a session that has ended on an empty page stays ended: no step      *)
(* changes its generator, its GeneratorInfo, its fetches or its portions,  *)
(* and a pull on it gives StopIteration.                                   *)
C6_EndedStaysEnded ==
    [][\A s \in Sessions : EndedOnEmpty(s) =>
          /\ sess'[s] = sess[s]
          /\ InfoOf(s)' = InfoOf(s)
          /\ fetched'[s] = fetched[s]
          /\ received'[s] = received[s]
          /\ yielded'[s] = yielded[s]
          /\ result'[s] # result[s] =>
                 result'[s] = [out |-> "StopIteration", pulls |-> result[s].pulls + 1]
      ]_vars

\* a session ended on an empty page after one portion, then pulled again
C6_Witness ==
    \E s \in Sessions :
        /\ EndedOnEmpty(s)
        /\ Len(yielded[s]) = 1
        /\ result[s].pulls = Len(fetched[s]) + 1
        /\ result[s].out = "StopIteration"

(* C7: a connection failure of the fetch of a pull is raised by that pull, *)
(* after one request and no retry; no portion is yielded, the cursor, the  *)
(* filters and total_amount keep their values, and the session is ended:   *)
(* no later step makes it fetch again.                                     *)
C7_FailurePropagatesAndEnds ==
    [][\A s \in Sessions :
          /\ (Created(s) /\ received'[s] = Append(received[s], ConnectionFailure)) =>
                 /\ result'[s] = [out |-> "ConnectionException",
                                  pulls |-> result[s].pulls + 1]
                 /\ Len(fetched'[s]) = Len(fetched[s]) + 1
                 /\ yielded'[s] = yielded[s]
                 /\ CursorOf(s)' = CursorOf(s)
                 /\ InfoOf(s)' = InfoOf(s)
                 /\ sess'[s].total_amount = sess[s].total_amount
                 /\ sess'[s].gen = "closed"
          /\ EndedOnFailure(s) =>
                 /\ sess'[s] = sess[s]
                 /\ InfoOf(s)' = InfoOf(s)
                 /\ fetched'[s] = fetched[s]
                 /\ yielded'[s] = yielded[s]
                 /\ result'[s] # result[s] => result'[s].out = "StopIteration"
      ]_vars

\* a failure on the second fetch of a session, then one more pull
C7_Witness ==
    \E s \in Sessions :
        /\ EndedOnFailure(s)
        /\ Len(fetched[s]) = 2 /\ Len(yielded[s]) = 1
        /\ result[s].pulls = 3
        /\ result[s].out = "StopIteration"

(* C8: a create_update_generator, create_search_generator or               *)
(* search_feed_by_id call with a name outside the catalog, and a           *)
(* create_update_generator call on a search-only collection, raise         *)
(* InputException: no session comes to exist and no request goes out for   *)
(* that name; create_search_generator accepts the search-only collections. *)
C8_InvalidCollectionRejectedBeforeFetch ==
    /\ \A s \in Sessions : args[s].kind # "none" =>
           LET name == args[s].collection_name
           IN  /\ (\/ name \notin DOMAIN COLLECTIONS_INFO
                   \/ args[s].kind = "update" /\ name \in ONLY_SEARCH_COLLECTIONS) =>
                      /\ ~Created(s)
                      /\ result[s] = [out |-> "InputException", pulls |-> 0]
                      /\ fetched[s] = <<>>
               /\ (/\ args[s].kind = "search" /\ name \in ONLY_SEARCH_COLLECTIONS
                   /\ args[s].date_from = None /\ args[s].date_to = None
                   /\ args[s].limit = None) =>
                      /\ IsSearch(s)
                      /\ sess[s].endpoint = name
    /\ lookup.collection_name \notin DOMAIN COLLECTIONS_INFO /\ lookup.out # "none" =>
           lookup.out = "InputException"
    /\ \A k \in 1..Len(lookup.fetched) :
           \E c \in DOMAIN COLLECTIONS_INFO, id \in FeedIds :
               lookup.fetched[k].endpoint = c \o "/" \o id
    /\ \A s \in Sessions : \A k \in 1..Len(fetched[s]) :
           \E c \in DOMAIN COLLECTIONS_INFO :
               fetched[s][k].endpoint \in {c, c \o "/updated"}

\* an update session refused for compromised/breached, a lookup refused for an
\* unknown name after an earlier lookup went out
C8_Witness ==
    /\ args[1].kind = "update" /\ args[1].collection_name = "compromised/breached"
    /\ result[1].out = "InputException"
    /\ lookup.collection_name = "no/such_collection" /\ lookup.out = "InputException"
    /\ Len(lookup.fetched) = 1

\* create_search_generator accepted compromised/reaper and the session fetched
C8_WitnessSearchOnly ==
    /\ IsSearch(1) /\ args[1].collection_name = "compromised/reaper"
    /\ Len(fetched[1]) >= 1

----------------------------------------------------------------------------
(* A session pulled alone: the generator built from the creation arguments *)
(* a, owning its GeneratorInfo, run over the responses one after another.  *)

SoloStart(a) ==
    LET info == GeneratorInfo(a.collection_name, a.kind, a.date_from, a.date_to,
                              a.query, a.limit, a.apply_hunting_rules,
                              a.keys, a.iocs_keys)
    IN  [g |-> IF a.kind = "update" THEN UpdateFeedGenerator(0, info, a.sequpdate)
                                    ELSE SearchFeedGenerator(0, info),
         info |-> info, fetched |-> <<>>, yielded |-> <<>>]

RECURSIVE SoloRun(_, _)
SoloRun(a, responses) ==
    IF responses = <<>> THEN SoloStart(a)
    ELSE LET before == SoloRun(a, SubSeq(responses, 1, Len(responses) - 1))
             r == next_gen(before.g, before.info, responses[Len(responses)])
         IN  [g |-> r.g, info |-> r.info,
              fetched |-> before.fetched \o r.requests,
              yielded |-> IF r.out = "portion" THEN Append(before.yielded, r.portion)
                                               ELSE before.yielded]

(* C9: two sessions of one poller own disjoint state: in every             *)
(* interleaving of their pulls each session has sent the requests, yielded *)
(* the portions and reached the cursor, filters and counters that it would *)
(* have with the same responses when pulled alone.                         *)
C9_SessionsAreIndependent ==
    \A s \in Sessions : Created(s) =>
        LET solo == SoloRun(args[s], received[s])
        IN  /\ fetched[s] = solo.fetched
            /\ yielded[s] = solo.yielded
            /\ InfoOf(s) = solo.info
            /\ [sess[s] EXCEPT !.generator_info = 0] = solo.g

\* two update sessions on one collection, created with different arguments, pulled
\* in any interleaving: two fetches of session 1 and one of session 2
C9_Witness ==
    /\ IsUpdate(1) /\ IsUpdate(2)
    /\ args[1].collection_name = args[2].collection_name
    /\ args[1].date_from # None /\ args[2].date_from = None
    /\ Len(fetched[1]) = 2 /\ Len(fetched[2]) = 1
    /\ sess[2].gen = "suspended"

\* an update and a search session on different collections, both pulled
C9_WitnessMixed ==
    /\ IsUpdate(1) /\ IsSearch(2)
    /\ args[1].collection_name # args[2].collection_name
    /\ Len(yielded[1]) >= 1 /\ Len(yielded[2]) >= 1

(* C10: total_amount is the sum of portion_size over the portions yielded  *)
(* so far, at every yield and at the end of the session, and it has no     *)
(* part in stopping: a session is ended exactly when its last fetch gave   *)
(* an empty page or failed.                                                *)
C10_TotalAmountIsSumOfSizes ==
    \A s \in Sessions : Created(s) =>
        /\ sess[s].total_amount = SumSizes(yielded[s])
        /\ sess[s].gen = "closed" <=>
               /\ received[s] # <<>>
               /\ ~IsFullPage(received[s][Len(received[s])])

\* pages of sizes 3, 3, 0: total_amount is 6 at the end
C10_Witness ==
    \E s \in Sessions :
        /\ EndedOnEmpty(s)
        /\ Len(yielded[s]) = 2
        /\ sess[s].total_amount = 6

----------------------------------------------------------------------------
(* Vocabulary of the properties about one portion and its templates.       *)

\* raw[key], None when the page has no such field
FieldOf(raw, key) == IF key \in DOMAIN raw.d THEN raw.d[key] ELSE None

\* search_feed_by_id has returned a portion, the portion in hand
HasPortion == lookup.out = "portion"

(* C11: the portion built from a raw page has count, sequpdate and result  *)
(* id equal to the count, seqUpdate and resultId fields of the page, None  *)
(* when the page lacks the field; the items its methods visit are the      *)
(* items of the page when count is not None, 0 included, and the page      *)
(* itself as the only item when count is None; portion_size is the number  *)
(* of those items, so exactly 1 for a page without count.                  *)
C11_PortionWrapsRawPage ==
    HasPortion =>
        LET portion == lookup.portion
            raw == portion.raw_dict
        IN  /\ portion.count = FieldOf(raw, "count")
            /\ portion.sequpdate = FieldOf(raw, "seqUpdate")
            /\ portion.result_id = FieldOf(raw, "resultId")
            /\ (FieldOf(raw, "count") # None /\ "items" \in DOMAIN raw.d) =>
                   feeds_of(portion) = raw.d["items"].l
            /\ FieldOf(raw, "count") = None =>
                   feeds_of(portion) = <<raw>> /\ portion.portion_size = 1
            /\ portion.portion_size = Len(feeds_of(portion))

\* the portion of a page that is one feed, as a lookup by id returns it
C11_Witness ==
    /\ HasPortion
    /\ lookup.portion.raw_dict = FeedRed
    /\ lookup.portion.count = None
    /\ lookup.portion.portion_size = 1

\* the portion of a page with count 0 and an empty item list
C11_WitnessCountZero ==
    /\ HasPortion
    /\ lookup.portion.count = PyInt(0)
    /\ "items" \in DOMAIN lookup.portion.raw_dict.d
    /\ lookup.portion.portion_size = 0

----------------------------------------------------------------------------
(* The reference resolver: the value at a path given by its segments.      *)

\* e[s], None when e has no s
ValueAt(e, s) == IF e.t = "dict" /\ s \in DOMAIN e.d THEN e.d[s] ELSE None

RECURSIVE resolve(_, _)
resolve(node, segments) ==
    LET s == segments[1]
        rest == Tail(segments)
    IN  IF rest = <<>>
        THEN CASE node.t = "list" ->
                      PyList([n \in 1..Len(node.l) |-> ValueAt(node.l[n], s)])
               [] node.t = "dict" -> ValueAt(node, s)
               [] OTHER -> node
        ELSE CASE node.t = "list" ->
                      PyList([n \in 1..Len(node.l) |->
                                 resolve(ValueAt(node.l[n], s), rest)])
               [] node.t = "dict" -> resolve(ValueAt(node, s), rest)
               [] OTHER -> node

(* C12: find_element_by_key(node, path) gives what the reference resolver  *)
(* gives for the segments of path, for every node and every dot path: the  *)
(* list of e[s] or None over the elements of a list, node[s] or None for   *)
(* an object, the node itself otherwise, and the same one level down for   *)
(* each further segment.                                                   *)
C12_ResolverMatchesReference ==
    helper.op = "find_element_by_key" =>
        helper.out = resolve(helper.obj, split(helper.key))

(* C13: find_element_by_key never raises: for every node and every dot     *)
(* path it returns a value, None for a key that is missing from an object, *)
(* and a scalar or None it is applied to comes back as it is.              *)
C13_ResolverNeverRaises ==
    helper.op = "find_element_by_key" =>
        /\ ~IsRaised(helper.out)
        /\ (helper.obj.t = "dict" /\ split(helper.key)[1] \notin DOMAIN helper.obj.d) =>
               helper.out = None
        /\ helper.obj.t \in {"none", "int", "str"} => helper.out = helper.obj

\* the leaves of a value that are not lists, depth first and left to right
RECURSIVE LeavesOf(_)
LeavesOf(value) ==
    IF value.t # "list" THEN <<value>>
    ELSE IF value.l = <<>> THEN <<>>
    ELSE LeavesOf(value.l[1]) \o LeavesOf(PyList(Tail(value.l)))

IsKeptIoc(leaf) ==
    leaf \notin {PyStr("255.255.255.255"), PyStr("0.0.0.0"), PyStr(""), None}

(* C14: unpack_iocs(value) returns a list without a list among its         *)
(* elements: the leaves of value that are not lists, depth first and left  *)
(* to right, without those equal to "255.255.255.255", "0.0.0.0", "" or    *)
(* None, each as often as it occurs; a value that is not a list gives at   *)
(* most one element.                                                       *)
C14_UnpackFlattensAndDrops ==
    helper.op = "unpack_iocs" =>
        /\ helper.out.t = "list"
        /\ helper.out.l = SelectSeq(LeavesOf(helper.obj), IsKeptIoc)
        /\ \A n \in 1..Len(helper.out.l) : helper.out.l[n].t # "list"
        /\ helper.obj.t # "list" => Len(helper.out.l) <= 1

\* unpack([["1.2.3.4", "0.0.0.0"], [""]]) = ["1.2.3.4"]
C14_Witness ==
    /\ helper.op = "unpack_iocs"
    /\ helper.obj = PyList(<<PyList(<<PyStr("1.2.3.4"), PyStr("0.0.0.0")>>),
                             PyList(<<PyStr("")>>)>>)
    /\ helper.out = PyList(<<PyStr("1.2.3.4")>>)

\* an address met twice is returned twice, in the order of the traversal
C14_WitnessDuplicates ==
    /\ helper.op = "unpack_iocs"
    /\ helper.obj = PyList(<<PyList(<<PyStr("8.8.8.8"), PyStr("1.2.3.4")>>),
                             PyList(<<PyStr("8.8.8.8")>>)>>)
    /\ helper.out = PyList(<<PyStr("8.8.8.8"), PyStr("1.2.3.4"), PyStr("8.8.8.8")>>)

\* a template value that is a literal: a string with a leading "*"
IsLiteral(value) == value.t = "str" /\ startswith(value.s, "*")

\* a template value that is a path: any other string
IsPath(value) == value.t = "str" /\ ~startswith(value.s, "*")

\* out is the projection of record through template: the keys of the
\* template, each with its literal, the value at its path or the projection
\* through its nested template
RECURSIVE IsProjection(_, _, _)
IsProjection(out, record, template) ==
    /\ out.t = "dict"
    /\ DOMAIN out.d = DOMAIN template.d
    /\ \A key \in DOMAIN template.d :
           LET value == template.d[key]
           IN  CASE IsLiteral(value) ->
                        out.d[key].t = "str" /\ "*" \o out.d[key].s = value.s
                 [] IsPath(value) -> out.d[key] = find_element_by_key(record, value.s)
                 [] OTHER -> IsProjection(out.d[key], record, value)

\* find_element_by_key raises for a path of the template, at any depth
RECURSIVE SomePathRaises(_, _)
SomePathRaises(record, template) ==
    \E key \in DOMAIN template.d :
        LET value == template.d[key]
        IN  CASE IsLiteral(value) -> FALSE
              [] IsPath(value) -> IsRaised(find_element_by_key(record, value.s))
              [] OTHER -> SomePathRaises(record, value)

(* C15: find_by_template(record, template) gives a dict with the keys of   *)
(* the template: for a string with a leading "*" the string without that   *)
(* one character, whatever the record; for any other string what           *)
(* find_element_by_key(record, value) gives; for a nested template the     *)
(* same one level down.  It raises exactly when find_element_by_key does   *)
(* for one of the paths.                                                   *)
C15_TemplateProjection ==
    helper.op = "find_by_template" =>
        IF SomePathRaises(helper.obj, helper.keys)
        THEN helper.out = Raised("AttributeError")
        ELSE IsProjection(helper.out, helper.obj, helper.keys)

\* the example of the set_keys docstring, first feed
C15_Witness ==
    /\ helper.op = "find_by_template"
    /\ helper.keys = DocKeys
    /\ helper.out =
           PyDict([network |-> PyDict([ips |-> PyList(<<PyList(<<PyInt(1), PyInt(2)>>),
                                                        PyList(<<PyInt(3)>>)>>)]),
                   url |-> PyList(<<PyStr("url.com"), PyStr("")>>),
                   type |-> PyStr("network")])

\* project({}, {type: "*malware"}) = {type: "malware"}
C15_WitnessLiteral ==
    /\ helper.op = "find_by_template"
    /\ helper.obj = EmptyDict
    /\ helper.keys = PyDict([type |-> PyStr("*malware")])
    /\ helper.out = PyDict([type |-> PyStr("malware")])

\* a template of the documented shape: a mapping whose values are, at every
\* depth, a string or again such a mapping
RECURSIVE IsValidTemplate(_)
IsValidTemplate(template) ==
    /\ template.t = "dict"
    /\ \A key \in DOMAIN template.d :
           template.d[key].t = "str" \/ IsValidTemplate(template.d[key])

\* out has, at every nesting level, exactly the keys of the template
RECURSIVE HasShape(_, _)
HasShape(out, template) ==
    /\ out.t = "dict"
    /\ DOMAIN out.d = DOMAIN template.d
    /\ \A key \in DOMAIN template.d :
           template.d[key].t = "dict" => HasShape(out.d[key], template.d[key])

\* the template a parse_portion call asks for: the one given with the call,
\* else the default attached to the portion
TemplateOf(c) == IF c.keys # None THEN c.keys ELSE c.portion.keys

(* C16: for every valid template, parse_portion without a filter returns a *)
(* list with one projected record per item of the portion, in item order:  *)
(* the i-th output is the projection of the i-th item alone and has, at    *)
(* every nesting level, exactly the keys of the template.                  *)
C16_OneProjectionPerItem ==
    (/\ call.op = "parse_portion"
     /\ call.filter_map = None
     /\ IsValidTemplate(TemplateOf(call)))
    => LET items == feeds_of(call.portion)
           template == TemplateOf(call)
       IN  /\ call.out.t = "list"
           /\ Len(call.out.l) = Len(items)
           /\ \A n \in 1..Len(items) :
                  /\ call.out.l[n] = find_by_template(items[n], template)
                  /\ HasShape(call.out.l[n], template)

(* C17: template validation is upfront and complete: set_keys and          *)
(* parse_portion(keys=...) raise InputException for every template that is *)
(* not a mapping whose values are, at every depth, a string or again such  *)
(* a mapping, and no such template is ever stored as a default.            *)
C17_ValidationUpfrontAndComplete ==
    /\ call.op = "set_keys" =>
           IsValidTemplate(call.keys) \/ call.out = Raised("InputException")
    /\ \A c \in DOMAIN _keys.d : IsValidTemplate(_keys.d[c])
    /\ (call.op = "parse_portion" /\ call.keys # None) =>
           IsValidTemplate(call.keys) \/ call.out = Raised("InputException")

\* an exception of class exc is caught by `except cls`
RECURSIVE IsKindOf(_, _)
IsKindOf(exc, cls) ==
    \/ exc = cls
    \/ exc \in DOMAIN exception_bases /\ IsKindOf(exception_bases[exc], cls)

\* the last call was portion.parse_portion(...) or portion.get_iocs(...)
IsParserCall == call.op \in {"parse_portion", "get_iocs"}

\* the default template the portion of the call carries for that method
DefaultOf(c) == IF c.op = "parse_portion" THEN c.portion.keys ELSE c.portion.iocs_keys

\* the portion of the call, had no default been configured for its collection
WithoutDefault(c) == [c.portion EXCEPT !.keys = EmptyList, !.iocs_keys = EmptyList]

\* what the method of the call gives on that portion with that template
MethodOf(c, portion, keys) ==
    IF c.op = "parse_portion"
    THEN parse_portion(portion, keys, c.filter_map, c.ignore, c.check_existence)
    ELSE get_iocs(portion, keys, c.filter_map, c.ignore, c.check_existence)

C18_WitnessOverride ==
    /\ call.op = "parse_portion"
    /\ call.portion.keys = KeysDeep
    /\ call.keys = KeysNested
    /\ call.out.t = "list"
    /\ Len(call.out.l) = 3

\* an empty template with the call: the configured default was used
C18_WitnessEmptyGiven ==
    /\ call.op = "parse_portion"
    /\ call.portion.keys = KeysNested
    /\ call.keys = EmptyDict
    /\ call.out.t = "list"
    /\ Len(call.out.l) = 3

\* what a record holds at a path, Missing when a segment is not a key of a
\* mapping on the way
Missing == [t |-> "missing"]

RECURSIVE ValueAtPath(_, _)
ValueAtPath(record, segments) ==
    IF segments = <<>> THEN record
    ELSE IF record.t = "dict" /\ segments[1] \in DOMAIN record.d
    THEN ValueAtPath(record.d[segments[1]], Tail(segments))
    ELSE Missing

\* the value at the path of the filter in the record is in its allow list
IsMember(record, filter_map) ==
    LET value == ValueAtPath(record, split(filter_map.l[1].s))
        allow_list == filter_map.l[2].l
    IN  \E n \in 1..Len(allow_list) : allow_list[n] = value

\* what the method of the call gives, without a filter, on a page that holds
\* just these records
Unfiltered(c, records) ==
    LET page == PyDict([count |-> PyInt(Len(records)), items |-> PyList(records)])
        portion == Parser(page, c.portion.keys, c.portion.iocs_keys)
    IN  IF c.op = "parse_portion"
        THEN parse_portion(portion, c.keys, None, FALSE, FALSE)
        ELSE get_iocs(portion, c.keys, None, FALSE, FALSE)

\* the records of the portion of the call that are, or are not, members
Members(c) ==
    LET member(record) == IsMember(record, c.filter_map)
    IN  SelectSeq(feeds_of(c.portion), member)

NonMembers(c) ==
    LET non_member(record) == ~IsMember(record, c.filter_map)
    IN  SelectSeq(feeds_of(c.portion), non_member)

(* C19: with a filter_map, ignore = False and check_existence = False,     *)
(* parse_portion and get_iocs keep a record if and only if the value at    *)
(* the path in that record is a member of the allow list: the call gives   *)
(* what it gives without a filter on the members alone, so a record that   *)
(* lacks the path is left out and an empty allow list leaves all out.      *)
C19_AcceptOnlyIfFound ==
    (IsParserCall /\ call.filter_map # None /\ ~call.ignore /\ ~call.check_existence)
    => call.out = Unfiltered(call, Members(call))

(* C20: with a filter_map and ignore = True, parse_portion and get_iocs    *)
(* drop a record if and only if the value at the path in that record is a  *)
(* member of the allow list: the call gives what it gives without a filter *)
(* on the other records, those that lack the path included, and on every   *)
(* record the decision is the negation of the one made with ignore = False *)
(* and check_existence = False.                                            *)
C20_IgnoreIfFound ==
    (IsParserCall /\ call.filter_map # None /\ call.ignore)
    => /\ call.out = Unfiltered(call, NonMembers(call))
       /\ \A n \in 1..Len(feeds_of(call.portion)) :
              LET record == feeds_of(call.portion)[n]
                  ignored == filter_accepts(record, call.filter_map, TRUE, FALSE)
                  accepted == filter_accepts(record, call.filter_map, FALSE, FALSE)
              IN  /\ ~IsRaised(ignored)
                  /\ ~IsRaised(accepted)
                  /\ ignored.b = ~accepted.b

\* the record holds a truthy value at the path of the filter
HoldsValue(record, filter_map) ==
    LET value == ValueAtPath(record, split(filter_map.l[1].s))
    IN  value # Missing /\ Truthy(value)

\* the records of the portion of the call that hold a value at the path
Holders(c) ==
    LET holds(record) == HoldsValue(record, c.filter_map)
    IN  SelectSeq(feeds_of(c.portion), holds)

(* C21: with a filter_map, ignore = False and check_existence = True,      *)
(* parse_portion and get_iocs keep a record if and only if the value at    *)
(* the path is truthy (a missing key, null, 0, false, "", [] and {} count  *)
(* as absent), whatever the allow list, and a list at the path raises      *)
(* nothing: the call gives what it gives without a filter on the records   *)
(* that hold a value.                                                      *)
C21_AcceptOnlyIfPathExists ==
    (IsParserCall /\ call.filter_map # None /\ ~call.ignore /\ call.check_existence)
    => call.out = Unfiltered(call, Holders(call))

\* walking the path in the record meets a list on the way or ends on a list
\* or a mapping
RECURSIVE MeetsNonScalar(_, _)
MeetsNonScalar(record, segments) ==
    IF segments = <<>> THEN record.t \in {"list", "dict"}
    ELSE IF record.t = "dict"
    THEN /\ segments[1] \in DOMAIN record.d
         /\ MeetsNonScalar(record.d[segments[1]], Tail(segments))
    ELSE record.t = "list"

(* C22: in the two allow-list modes (ignore = True, or ignore = False and  *)
(* check_existence = False), when the path of the filter resolves to a     *)
(* list or another non-scalar in some record of the portion, a call whose  *)
(* template is in order raises an exception that is a kind of              *)
(* InputException and returns no result.                                   *)
C22_NonScalarTargetIsInputError ==
    (/\ IsParserCall
     /\ call.filter_map # None
     /\ call.ignore \/ ~call.check_existence
     /\ ~IsRaised(Unfiltered(call, <<>>))
     /\ \E n \in 1..Len(feeds_of(call.portion)) :
            MeetsNonScalar(feeds_of(call.portion)[n], split(call.filter_map.l[1].s)))
    => /\ IsRaised(call.out)
       /\ IsKindOf(call.out.exc, "InputException")

\* an IOC template of the documented shape: a mapping of names to paths
IsIocTemplate(template) ==
    /\ template.t = "dict"
    /\ \A key \in DOMAIN template.d : template.d[key].t = "str"

\* the IOC template a get_iocs call works with
IocTemplateOf(c) == IF Truthy(c.keys) THEN c.keys ELSE c.portion.iocs_keys

\* the IOCs of the first n items at a path, item after item
RECURSIVE IocsUpTo(_, _, _)
IocsUpTo(items, path, n) ==
    IF n = 0 THEN <<>>
    ELSE IocsUpTo(items, path, n - 1) \o unpack_iocs(find_element_by_key(items[n], path)).l

(* C23: get_iocs without a filter returns a mapping with exactly the keys  *)
(* of the IOC template; the value of each key is the concatenation, over   *)
(* the items of the portion in item order, of                              *)
(* unpack_iocs(find_element_by_key(item, path)): one flat list, duplicates *)
(* across items kept.  It raises when find_element_by_key does.            *)
C23_IocsConcatenatedPerKey ==
    (call.op = "get_iocs" /\ call.filter_map = None /\ IsIocTemplate(IocTemplateOf(call)))
    => LET items == feeds_of(call.portion)
           template == IocTemplateOf(call)
       IN  IF \E key \in DOMAIN template.d, n \in 1..Len(items) :
                  IsRaised(find_element_by_key(items[n], template.d[key].s))
           THEN call.out = Raised("AttributeError")
           ELSE /\ call.out.t = "dict"
                /\ DOMAIN call.out.d = DOMAIN template.d
                /\ \A key \in DOMAIN template.d :
                       call.out.d[key] =
                           PyList(IocsUpTo(items, template.d[key].s, Len(items)))

\* the example of the set_iocs_keys docstring
C23_Witness ==
    /\ call.op = "get_iocs"
    /\ call.out =
           PyDict([ips |-> PyList(<<PyInt(1), PyInt(2), PyInt(3), PyInt(4), PyInt(5)>>),
                   url |-> PyList(<<PyStr("url.com"), PyStr("new_url.com")>>)])

\* the same address from two items is kept twice
C23_WitnessDuplicates ==
    /\ call.op = "get_iocs"
    /\ call.out = PyDict([ips |-> PyList(<<PyStr("1.2.3.4"), PyStr("1.2.3.4")>>)])

\* every request made so far, by the sessions and by the lookups
RequestsMade == UNION {{fetched[s][k] : k \in 1..Len(fetched[s])} : s \in Sessions}
                    \cup {lookup.fetched[k] : k \in 1..Len(lookup.fetched)}

(* C24: send_request drops exactly the parameters whose value is null and  *)
(* forwards every other parameter with its value: a seqUpdate, limit or    *)
(* apply_hunting_rules of 0 and an empty query go out like any other       *)
(* value.                                                                  *)
C24_OnlyNullParamsDropped ==
    \A request \in RequestsMade :
        /\ DOMAIN request.sent = {k \in DOMAIN request.params : request.params[k] # None}
        /\ \A k \in DOMAIN request.sent : request.sent[k] = PyToStr(request.params[k])

\* a page with a count that is not null and no item: the list of its items is
\* empty or missing
IsCountedEmpty(page) ==
    /\ page # ConnectionFailure
    /\ FieldOf(page, "count") # None
    /\ "items" \in DOMAIN page.d => page.d["items"] \in {EmptyList, EmptyDict}

\* the session of handle s is not over: a pull runs the loop
Running(s) == sess[s].gen \in {"created", "suspended"}

\* every page the session received was yielded, with size 1 when it has no
\* count, unless it is a counted empty page, on which the session ended; and
\* a session that ended on a page ended on such a page
EndsOnlyOnCountedEmpty(s) ==
    /\ \A k \in 1..Len(received[s]) :
           LET page == received[s][k]
           IN  page # ConnectionFailure =>
                   IF IsCountedEmpty(page)
                   THEN /\ k = Len(received[s])
                        /\ sess[s].gen = "closed"
                        /\ Len(yielded[s]) = k - 1
                   ELSE /\ k <= Len(yielded[s])
                        /\ yielded[s][k].raw_dict = page
                        /\ FieldOf(page, "count") = None => yielded[s][k].portion_size = 1
    /\ (sess[s].gen = "closed" /\ received[s] # <<>>) =>
           \/ received[s][Len(received[s])] = ConnectionFailure
           \/ IsCountedEmpty(received[s][Len(received[s])])

(* C25: a session ends only on a page with a count that is not null and an *)
(* empty or missing item list; a page without a count has size 1 and is    *)
(* yielded; so with a consumer that keeps pulling, a session is over once   *)
(* the server answers with such a page (or fails), and not before.         *)
C25_EndsOnCountedEmptyPage ==
    /\ [](\A s \in Sessions : EndsOnlyOnCountedEmpty(s))
    /\ (Running(1) ~> (EndedOnEmpty(1) \/ EndedOnFailure(1)))

\* a page without a count was yielded and the session then ended on a page
\* that has a count and no items field
C25_Witness ==
    /\ Len(received[1]) = 3
    /\ FieldOf(received[1][1], "count") = None
    /\ received[1][2] = PyDict([count |-> None, items |-> EmptyList])
    /\ received[1][3] = PyDict([count |-> PyInt(0)])
    /\ Len(yielded[1]) = 2
    /\ yielded[1][2].portion_size = 1
    /\ sess[1].gen = "closed"

\* this step handed the session of handle s a counted empty page
ReceivesCountedEmpty(s) ==
    /\ Len(received'[s]) = Len(received[s]) + 1
    /\ IsCountedEmpty(received'[s][Len(received'[s])])

(* C26: the step in which a session receives the empty page that ends it   *)
(* changes nothing of the session but the fetch counter (and that it is    *)
(* over): the cursor (seqUpdate or resultId), total_amount and the date    *)
(* and query filters keep their values, whatever the empty page carries.   *)
C26_EmptyPageChangesNoState ==
    [][\A s \in Sessions :
          ReceivesCountedEmpty(s) =>
              /\ sess'[s] = [sess[s] EXCEPT !.i = @ + 1, !.gen = "closed"]
              /\ heap' = heap
              /\ yielded' = yielded]_vars

\* an update session that took the cursor 100 from a page has ended on an
\* empty page that carries the cursor 300
C26_Witness ==
    /\ IsUpdate(1)
    /\ sess[1].gen = "closed"
    /\ Len(received[1]) = 2
    /\ FieldOf(received[1][1], "seqUpdate") = PyInt(100)
    /\ IsCountedEmpty(received[1][2])
    /\ FieldOf(received[1][2], "seqUpdate") = PyInt(300)
    /\ sess[1].sequpdate = PyInt(100)
    /\ sess[1].total_amount = 3

\* a search session has ended on an empty page that carries a result id
C26_WitnessSearch ==
    /\ IsSearch(1)
    /\ sess[1].gen = "closed"
    /\ Len(received[1]) = 2
    /\ FieldOf(received[1][1], "resultId") = PyStr("abc")
    /\ IsCountedEmpty(received[1][2])
    /\ FieldOf(received[1][2], "resultId") = PyStr("ghi")
    /\ sess[1].result_id = PyStr("abc")

\* the default templates of the collection of session s now
CurrentKeys(s) == Get(_keys, args[s].collection_name, None)
CurrentIocsKeys(s) == Get(_iocs_keys, args[s].collection_name, None)

(* C27: every portion a session yields carries the default templates that  *)
(* were configured for its collection when the session was created (none   *)
(* when none was), whatever set_keys and set_iocs_keys did since; and a     *)
(* session is created with the templates configured at that moment.        *)
C27_TemplatesFixedAtCreation ==
    /\ [](\A s \in Sessions : \A k \in 1..Len(yielded[s]) :
             /\ yielded[s][k].keys = args[s].keys
             /\ yielded[s][k].iocs_keys = args[s].iocs_keys)
    /\ [][\A s \in Sessions :
              (~Created(s) /\ Created(s)') =>
                  /\ args'[s].keys = CurrentKeys(s)'
                  /\ args'[s].iocs_keys = CurrentIocsKeys(s)'
                  /\ _keys' = _keys /\ _iocs_keys' = _iocs_keys]_vars

\* session 1 was created before any template was set and yielded a portion
\* after both were set; session 2, created later, yields with the new ones
C27_Witness ==
    /\ args[1].kind # "none" /\ args[1].keys = None /\ args[1].iocs_keys = None
    /\ CurrentKeys(1) = KeysDeep /\ CurrentIocsKeys(1) = IocsKeys
    /\ Len(yielded[1]) = 1 /\ yielded[1][1].keys = None
    /\ Len(yielded[2]) = 1 /\ yielded[2][1].keys = KeysDeep
    /\ yielded[2][1].iocs_keys = IocsKeys

\* the template was replaced between two portions of one session
C27_WitnessReplaced ==
    /\ args[1].kind # "none" /\ args[1].keys = KeysNested
    /\ CurrentKeys(1) = KeysDeep
    /\ Len(yielded[1]) = 2
    /\ yielded[1][2].keys = KeysNested

\* the filter mode the arguments of a call select
ModeOf(filter_map, ignore, check_existence) ==
    IF filter_map \in {None, EmptyList} THEN "KEEP_ALL"
    ELSE IF ignore THEN "IGNORE_IF_FOUND"
    ELSE IF check_existence THEN "ACCEPT_ONLY_IF_PATH_EXISTS"
    ELSE "ACCEPT_ONLY_IF_FOUND"

\* what a mode decides for a record: PyBool(TRUE) to keep it, or what the
\* test of the mode raised
Decides(mode, record, filter_map) ==
    LET road == split(filter_map.l[1].s)
        found == _keys_found(record, road, filter_map.l[2])
    IN  CASE mode = "KEEP_ALL" -> PyBool(TRUE)
          [] mode = "IGNORE_IF_FOUND" -> IF IsRaised(found) THEN found ELSE PyBool(~found.b)
          [] mode = "ACCEPT_ONLY_IF_PATH_EXISTS" -> _keys_exist(record, road)
          [] mode = "ACCEPT_ONLY_IF_FOUND" -> found

\* the decisions of the mode of the call, record by record
DecisionsOf(c) ==
    LET mode == ModeOf(c.filter_map, c.ignore, c.check_existence)
        records == feeds_of(c.portion)
    IN  [n \in 1..Len(records) |-> Decides(mode, records[n], c.filter_map)]

\* the records the mode of the call keeps, when it decides for all of them
KeptBy(c) ==
    LET records == feeds_of(c.portion)
        numbers == {n \in 1..Len(records) : DecisionsOf(c)[n].b}
        RECURSIVE from(_)
        from(n) == IF n > Len(records) THEN <<>>
                   ELSE IF n \in numbers THEN <<records[n]>> \o from(n + 1)
                   ELSE from(n + 1)
    IN  from(1)

(* C28: the filter mode is selected by a fixed priority: no filter_map     *)
(* (null or empty) keeps every record whatever the flags; with one, ignore *)
(* selects IGNORE_IF_FOUND even with check_existence, else check_existence *)
(* selects ACCEPT_ONLY_IF_PATH_EXISTS, else ACCEPT_ONLY_IF_FOUND; both     *)
(* parse_portion and get_iocs give what they give without a filter on the  *)
(* records that mode keeps, so get_iocs collects from exactly the records  *)
(* parse_portion keeps; when the test of the mode raises, so do they.      *)
C28_FilterModePriority ==
    IsParserCall =>
        IF \E n \in DOMAIN DecisionsOf(call) : IsRaised(DecisionsOf(call)[n])
        THEN IsRaised(call.out)
        ELSE call.out = Unfiltered(call, KeptBy(call))

\* ignore and check_existence both set: the record whose value is in the
\* allow list was dropped and the other two were kept
C28_Witness ==
    /\ call.op = "parse_portion"
    /\ call.filter_map = PyList(<<PyStr("evaluation.severity"), PyList(<<PyStr("red")>>)>>)
    /\ call.ignore /\ call.check_existence
    /\ Len(feeds_of(call.portion)) = 3
    /\ call.out.t = "list"
    /\ Len(call.out.l) = 2

\* an empty filter_map with both flags set: get_iocs collected from every record
C28_WitnessNoFilter ==
    /\ call.op = "get_iocs"
    /\ call.filter_map = EmptyList
    /\ call.ignore /\ call.check_existence
    /\ Len(feeds_of(call.portion)) = 3
    /\ call.out = PyDict([ips |-> PyList(<<PyStr("1.2.3.4")>>)])

\* check_existence alone: get_iocs collected from the records with a severity
C28_WitnessExists ==
    /\ call.op = "get_iocs"
    /\ call.filter_map = PyList(<<PyStr("evaluation.severity"), EmptyList>>)
    /\ ~call.ignore /\ call.check_existence
    /\ Len(feeds_of(call.portion)) = 3
    /\ call.out = PyDict([ips |-> PyList(<<PyStr("1.2.3.4")>>)])

====
